---- MODULE Spec2Model ----
(***************************************************************************)
(* A model of the comfyui-sdk core: ComfyUIPool (leasing and load          *)
(* balancing), ComfyUISession (a lease bound to an optional pipeline),     *)
(* the per-instance bounded task queue and ComfyUIClient's                 *)
(* submit / poll / getHistory state machine.                               *)
(*                                                                         *)
(* Spec       : pool, sessions, queues and Session.run at the granularity  *)
(*              of the await points of the code.                           *)
(* SpecMetrics: the pool's sessions created and closed, and metrics read.  *)
(* SpecSession: Session.run calls through the queue of a one-node pool.    *)
(* SpecClient : one ComfyUIClient.run against a nondeterministic server.   *)
(* SpecLive   : one run polling a remote whose requests all succeed, under *)
(*              fair scheduling.                                           *)
(* SpecBackoff, SpecExtract, SpecOutputs, SpecPrepare: exponentialBackoff, *)
(*              artifact extraction and the input / output mappings, each  *)
(*              applied to arguments of a bounded range.                   *)
(* SpecPipeline: ArtifactPipeline.run, called repeatedly on one artifact.  *)
(* SpecReject : the same with a processor whose run rejects.               *)
(* SpecConcurrent: Pipeline.run calls on one artifact that overlap.        *)
(* SpecWalk   : the walk of ArtifactPipeline.run over a tree of artifacts. *)
(***************************************************************************)
EXTENDS Integers, Sequences, FiniteSets, TLC

\* ------------------------------------------------------------------ bounds
MaxInstances == 2      \* most pool nodes handed to the constructor
MaxCap == 2            \* largest maxConcurrency of a node
MaxSessions == 3       \* createSession / withSession calls in one behaviour
MaxWith == 1           \* of these, withSession calls in one behaviour
RunSessions == 2       \* createSession calls when Session.run calls are followed
MaxRuns == 2           \* Session.run calls in one behaviour
MaxPolls == 3          \* history fetches of one ComfyUIClient.run
MaxAttempt == 5        \* largest attempt handed to exponentialBackoff
MaxSmall == 6          \* small bases and caps handed to exponentialBackoff: 1 .. MaxSmall
MaxFields == 2         \* most fields of a node's output object
MaxProcs == 2          \* most processors of a pipeline
MaxPipeRuns == 2       \* Pipeline.run calls on one artifact in one behaviour
MaxMap == 2            \* most entries of an input or output mapping
MaxArts == 2           \* most artifacts handed to applyNodeOutputs
MaxItems == 2          \* most elements of the list or mapping handed to Pipeline.run

Slots == 1 .. MaxSessions
RunSlots == 1 .. RunSessions
\* Session.run calls are followed on a pool of one node, whose queue either
\* serialises the tasks or lets two of them run together.
RunCaps == {1, 2}
Runs == 1 .. MaxRuns

VARIABLES
  maxConcurrencies,   \* ComfyUIPool.maxConcurrencies : number[]
  sessionCounts,      \* ComfyUIPool.sessionCounts    : number[] (indices 0..n-1)
  phantomCount,       \* the array's property "-1": "undefined" until written
  sess,               \* per call slot: "none" | "null" | "open" | "closed"
  inst,               \* per session: the index `best` captured by its lease
  pipe,               \* per session: whether a pipeline was attached
  wpc,                \* per slot: position of the withSession frame
  fnOut,              \* per slot: how fn(session) settled
  wOut,               \* per slot: how withSession settled
  releases,           \* per session: number of times lease.release() ran
  rsess,              \* per run call: the session it was made on (0: not made)
  rpc,                \* per run call: position inside Session.run
  calledOpen,         \* per run call: the session was open when run() was called
  waiting,            \* per instance: PQueue's waiting tasks, in enqueue order
  pending,            \* per instance: PQueue's count of running tasks
  lastOp,             \* the call now returning to its caller: a delegated
                      \* queue / uploadFile / getHistory, or a close() that found
                      \* the session closed already
  pollCfg,            \* ComfyUIClient.pollCfg: interval, backoffBase, backoffCap
  cpc,                \* position of the ComfyUIClient.run call
  promptId,           \* prompt_id returned by POST /prompt
  attempt,            \* pollUntilDone's `attempt`
  waitMs,             \* the delay of the latest sleep
  slept,              \* number of sleeps started by the run
  fetched,            \* number of history requests issued by the run
  rec,                \* the response of the run's latest history request
  cerr,               \* the error the run rejected with
  ghCall,             \* a direct getHistory(promptId) call and how it settled
  downloads,          \* number of GET /view requests issued by the run
  inflight,           \* of these, the ones that have not settled yet
  made,               \* number of Artifact objects created by the run
  bk,                 \* exponentialBackoff calls of one schedule: base, cap, the
                      \* latest attempt, its result and the result before it
  ex,                 \* extractArtifacts: the outputs tree of a completed prompt
                      \* and, once extracted, the artifacts of the run in order
  processors,         \* ArtifactPipeline.processors
  artifact,           \* the Artifact object handed to Pipeline.run: kind,
                      \* payload, manifest and its pipeline state (the bus)
  ppc,                \* per Pipeline.run call: its position in processArtifact
  plog,               \* every shouldRun / run invocation so far, in order, with
                      \* the artifact the processor was handed
  settled,            \* per Pipeline.run call: the artifact when the call resolved
  om,                 \* the end of ComfyUIClient.run: the artifacts, the node's
                      \* output mapping and, once returned, the result
  prep,               \* the start of ComfyUIClient.run / queue: the caller's
                      \* workflow object, options.node, options.inputs and the
                      \* bodies of the POST /prompt requests issued
  mret,               \* the value the last read of pool.metrics gave its caller
  remote,             \* the record the remote instance holds for the prompt
  tw                  \* a Pipeline.run call on a tree of artifacts: the tree, the
                      \* processArtifact calls of the walk and the value returned

poolVars == <<maxConcurrencies, sessionCounts, phantomCount>>
sessVars == <<sess, inst, pipe, releases>>
withVars == <<wpc, fnOut, wOut>>
runVars == <<rsess, rpc, calledOpen, waiting, pending>>
clientVars == <<pollCfg, cpc, promptId, attempt, waitMs, slept, fetched, rec, cerr,
                ghCall, downloads, inflight, made>>
pipeVars == <<processors, artifact, ppc, plog, settled>>
utilVars == <<bk, ex, pipeVars, om, prep, mret, tw, remote>>
vars == <<maxConcurrencies, sessionCounts, phantomCount, sess, inst, pipe, wpc,
          fnOut, wOut, releases, rsess, rpc, calledOpen, waiting, pending,
          lastOp, pollCfg, cpc, promptId, attempt, waitMs, slept, fetched, rec,
          cerr, ghCall, downloads, inflight, made, bk, ex, processors, artifact,
          ppc, plog, settled, om, prep, mret, tw, remote>>

\* ------------------------------------------------------------ small helpers
Max0(x) == IF x < 0 THEN 0 ELSE x

NoOutcome == [kind |-> "none", val |-> "none"]

\* How a caller-supplied async function can settle.
FnOutcomes == { [kind |-> "resolved", val |-> "v1"],
                [kind |-> "resolved", val |-> "v2"],
                [kind |-> "rejected", val |-> "e1"] }

NoOp == [s |-> 0, m |-> "none", out |-> "none"]

\* ---------------------------------------------------------- ComfyUIPool
\* The indices of this.clients: 0 .. clients.length - 1
Instances == DOMAIN maxConcurrencies

NumInstances == Cardinality(Instances)

\* ratio a/b < c/d for positive denominators: the doubles the code compares are
\* the correctly rounded quotients of small integers, which order as the rationals.
RatioLessOrEqual(a, b, c, d) == a * d <= c * b

RatioLess(a, b, c, d) == a * d < c * b

\* The selection loop of acquire(): `best` and `bestRatio` (bnum/bden) after
\* scanning the instances from index i on.
RECURSIVE Scan(_, _, _, _)
Scan(i, best, bnum, bden) ==
  IF i >= NumInstances THEN best
  ELSE IF RatioLess(sessionCounts[i], maxConcurrencies[i], bnum, bden)
          /\ sessionCounts[i] < maxConcurrencies[i]
       THEN Scan(i + 1, i, sessionCounts[i], maxConcurrencies[i])
       ELSE Scan(i + 1, best, bnum, bden)

\* let best = -1; let bestRatio = 1; for (...) {...}
AcquireBestDefaultZero == Scan(0, 0, 1, 1)

AcquireBest == Scan(0, -1, 1, 1)

\* The value acquire() returns: always a lease object, whatever `best` is.
AcquireLease == [null |-> FALSE, best |-> AcquireBest]

\* this.sessionCounts[best]!++
CountsAfterAcquireLost(best) == sessionCounts

CountsAfterAcquireAll(best) == [i \in Instances |-> sessionCounts[i] + 1]

CountsAfterAcquire(best) ==
  IF best \in Instances
  THEN [sessionCounts EXCEPT ![best] = @ + 1]
  ELSE sessionCounts

\* undefined++ and NaN++ both store NaN under the property `best`
PhantomAfterAcquire(best) ==
  IF best \in Instances THEN phantomCount ELSE "NaN"

\* Math.max(0, this.sessionCounts[best]! - 1)
ReleaseValueKeep(c) == c

ReleaseValueTwice(c) == c - 2

ReleaseValueLost(c) == c

ReleaseValue(c) == Max0(c - 1)

CountsAfterRelease(best) ==
  IF best \in Instances
  THEN [sessionCounts EXCEPT ![best] = ReleaseValue(@)]
  ELSE sessionCounts

\* Math.max(0, undefined - 1) and Math.max(0, NaN - 1) are NaN
PhantomAfterRelease(best) ==
  IF best \in Instances THEN phantomCount ELSE "NaN"

\* get metrics(): available flag of instance i
Available(i) == sessionCounts[i] < maxConcurrencies[i]

\* get metrics(): the entry of instance i
MetricsEntryAtCapacity(i) ==
  [index |-> i, currentSessions |-> sessionCounts[i],
   maxConcurrency |-> maxConcurrencies[i],
   available |-> sessionCounts[i] <= maxConcurrencies[i]]

MetricsEntry(i) ==
  [index |-> i, currentSessions |-> sessionCounts[i],
   maxConcurrency |-> maxConcurrencies[i], available |-> Available(i)]

\* this.clients.map((_, i) => ({ ... }))
Metrics == [i \in Instances |-> MetricsEntry(i)]

NoMetrics == [read |-> FALSE, entries |-> <<>>]

\* No delegated call is on its way back to its caller.
NoOpInFlight == lastOp.m = "none"

NextSlot(s) == sess[s] = "none" /\ \A t \in Slots : t < s => sess[t] # "none"

\* createSession(pipeline): acquire, then `if (!lease) return null`,
\* else new ComfyUISession(lease, pipeline). frame is the withSession position
\* the slot starts in ("none" for a plain createSession call).
CreateSessionInto(s, p, frame) ==
  LET lease == AcquireLease IN
  IF lease.null
  THEN /\ sess' = [sess EXCEPT ![s] = "null"]
       /\ wpc' = [wpc EXCEPT ![s] = IF frame = "none" THEN "none" ELSE "saturated"]
       /\ UNCHANGED <<sessionCounts, phantomCount, inst, pipe>>
  ELSE /\ sessionCounts' = CountsAfterAcquire(lease.best)
       /\ phantomCount' = PhantomAfterAcquire(lease.best)
       /\ sess' = [sess EXCEPT ![s] = "open"]
       /\ inst' = [inst EXCEPT ![s] = lease.best]
       /\ pipe' = [pipe EXCEPT ![s] = p]
       /\ wpc' = [wpc EXCEPT ![s] = frame]

CreateSession(s, p) ==
  /\ NextSlot(s)
  /\ NoOpInFlight
  /\ CreateSessionInto(s, p, "none")
  /\ UNCHANGED <<maxConcurrencies, releases, fnOut, wOut, runVars, lastOp>>
  /\ UNCHANGED <<clientVars, utilVars>>

\* withSession(fn, pipeline) up to the first await: createSession, the
\* saturation throw, and the call of fn(session).
WithSessionCall(s, p) ==
  /\ NoOpInFlight
  /\ NextSlot(s)
  /\ Cardinality({t \in Slots : wpc[t] # "none"}) < MaxWith
  /\ CreateSessionInto(s, p, "fn")
  /\ UNCHANGED <<maxConcurrencies, releases, fnOut, wOut, runVars, lastOp>>
  /\ UNCHANGED <<clientVars, utilVars>>

\* The promise returned by fn(session) settles.
FnSettle(s, out) ==
  /\ NoOpInFlight
  /\ wpc[s] = "fn"
  /\ wpc' = [wpc EXCEPT ![s] = "fnSettled"]
  /\ fnOut' = [fnOut EXCEPT ![s] = out]
  /\ UNCHANGED <<poolVars, sessVars, wOut, runVars, lastOp>>
  /\ UNCHANGED <<clientVars, utilVars>>

\* ComfyUISession.close(): the state after the call, as an effect on session s.
CloseEffectUnguarded(s) ==
  /\ sess' = [sess EXCEPT ![s] = "closed"]
  /\ sessionCounts' = CountsAfterRelease(inst[s])
  /\ phantomCount' = PhantomAfterRelease(inst[s])
  /\ releases' = [releases EXCEPT ![s] = @ + 1]
  /\ UNCHANGED lastOp

CloseEffect(s) ==
  IF sess[s] = "open"
  THEN /\ sess' = [sess EXCEPT ![s] = "closed"]
       /\ sessionCounts' = CountsAfterRelease(inst[s])
       /\ phantomCount' = PhantomAfterRelease(inst[s])
       /\ releases' = [releases EXCEPT ![s] = @ + 1]
       /\ UNCHANGED lastOp
  ELSE /\ lastOp' = [s |-> s, m |-> "close", out |-> "noop"]
       /\ UNCHANGED <<sess, sessionCounts, phantomCount, releases>>

\* withSession resumes after `await fn(session)`: finally { session.close() },
\* then it returns fn's value or rethrows fn's error.
WithSessionFinally(s) ==
  /\ NoOpInFlight
  /\ wpc[s] = "fnSettled"
  /\ CloseEffect(s)
  /\ wpc' = [wpc EXCEPT ![s] = "done"]
  /\ wOut' = [wOut EXCEPT ![s] = fnOut[s]]
  /\ UNCHANGED <<maxConcurrencies, inst, pipe, fnOut, runVars>>
  /\ UNCHANGED <<clientVars, utilVars>>

\* An explicit session.close() by whoever holds the session.
Close(s) ==
  /\ NoOpInFlight
  /\ sess[s] \in {"open", "closed"}
  /\ CloseEffect(s)
  /\ UNCHANGED <<maxConcurrencies, inst, pipe, withVars, runVars>>
  /\ UNCHANGED <<clientVars, utilVars>>

\* ------------------------------------------------- ComfyUISession and PQueue
\* assertOpen(): whether it throws 'ComfyUISession already closed'
AssertOpenNeverThrows(s) == FALSE

AssertOpenThrows(s) == sess[s] = "closed"

\* this.lease.queue / this.lease.client are this.queues[best] / this.clients[best]:
\* undefined when best is not an index of the arrays
LeaseMemberUndefined(s) == inst[s] \notin Instances

\* new PQueue({ concurrency: o.maxConcurrency ?? 1 })
QueueConcurrencyPlusOne(i) == maxConcurrencies[i] + 1

QueueConcurrency(i) == maxConcurrencies[i]

\* PQueue.add(task) on instance i for run call r: enqueue, then start the head
\* of the queue if fewer than `concurrency` tasks are running.
QueueAdd(i, r) ==
  LET q == Append(waiting[i], r) IN
  IF pending[i] < QueueConcurrency(i)
  THEN /\ waiting' = [waiting EXCEPT ![i] = Tail(q)]
       /\ pending' = [pending EXCEPT ![i] = @ + 1]
       /\ rpc' = [rpc EXCEPT ![Head(q)] = "running"]
  ELSE /\ waiting' = [waiting EXCEPT ![i] = q]
       /\ rpc' = [rpc EXCEPT ![r] = "queued"]
       /\ UNCHANGED pending

NextRun(r) == rpc[r] = "idle" /\ \A q \in Runs : q < r => rpc[q] # "idle"

\* ComfyUISession.run(workflow, options) up to its first await: assertOpen, then
\* lease.queue.add(() => lease.client.run(...)); the task starts at once when the
\* queue has a free slot, which issues the POST /prompt of ComfyUIClient.run.
SessionRun(r, s) ==
  /\ NoOpInFlight
  /\ NextRun(r)
  /\ sess[s] \in {"open", "closed"}
  /\ rsess' = [rsess EXCEPT ![r] = s]
  /\ calledOpen' = [calledOpen EXCEPT ![r] = sess[s] = "open"]
  /\ IF AssertOpenThrows(s)
     THEN /\ rpc' = [rpc EXCEPT ![r] = "rejClosed"]
          /\ UNCHANGED <<waiting, pending>>
     ELSE IF LeaseMemberUndefined(s)
     THEN /\ rpc' = [rpc EXCEPT ![r] = "rejType"]
          /\ UNCHANGED <<waiting, pending>>
     ELSE QueueAdd(inst[s], r)
  /\ UNCHANGED <<poolVars, sessVars, withVars, lastOp>>
  /\ UNCHANGED <<clientVars, utilVars>>

\* Where Session.run goes when the promise of queue.add settles: a failure of
\* client.run leaves the function at the await; artifacts go to pipeline.run
\* when a pipeline is attached and are returned otherwise.
AfterClientRunSwallowed(ok, hasPipeline) ==
  IF hasPipeline THEN "pipeline" ELSE "resolved"

AfterClientRun(ok, hasPipeline) ==
  IF ok THEN (IF hasPipeline THEN "pipeline" ELSE "resolved") ELSE "rejClient"

\* The promise of lease.client.run settles for run call r. The queue's wrapper
\* then counts the task out and starts the next waiting task; Session.run resumes
\* with the artifacts (always an array or an object, so never falsy) and hands
\* them to pipeline.run when a pipeline is attached, or rejects with the failure.
ClientRunSettle(r, ok) ==
  /\ NoOpInFlight
  /\ rpc[r] = "running"
  /\ LET i == inst[rsess[r]]
         after == AfterClientRun(ok, pipe[rsess[r]])
     IN IF waiting[i] # <<>> /\ pending[i] - 1 < QueueConcurrency(i)
        THEN /\ rpc' = [rpc EXCEPT ![r] = after, ![Head(waiting[i])] = "running"]
             /\ waiting' = [waiting EXCEPT ![i] = Tail(@)]
             /\ UNCHANGED pending
        ELSE /\ rpc' = [rpc EXCEPT ![r] = after]
             /\ pending' = [pending EXCEPT ![i] = @ - 1]
             /\ UNCHANGED waiting
  /\ UNCHANGED <<poolVars, sessVars, withVars, rsess, calledOpen, lastOp>>
  /\ UNCHANGED <<clientVars, utilVars>>

\* The promise of pipeline.run(artifacts) settles for run call r.
PipelineSettle(r, ok) ==
  /\ NoOpInFlight
  /\ rpc[r] = "pipeline"
  /\ rpc' = [rpc EXCEPT ![r] = IF ok THEN "resolved" ELSE "rejPipeline"]
  /\ UNCHANGED <<poolVars, sessVars, withVars, rsess, calledOpen, waiting, pending, lastOp>>
  /\ UNCHANGED <<clientVars, utilVars>>

\* queue / uploadFile / getHistory of the session: assertOpen, then the call of
\* the same method of lease.client.
Delegate(s, m) ==
  /\ NoOpInFlight
  /\ sess[s] \in {"open", "closed"}
  /\ lastOp' = [s |-> s, m |-> m,
                out |-> IF AssertOpenThrows(s) THEN "rejClosed"
                        ELSE IF LeaseMemberUndefined(s) THEN "rejType"
                        ELSE "delegated"]
  /\ UNCHANGED <<poolVars, sessVars, withVars, runVars>>
  /\ UNCHANGED <<clientVars, utilVars>>

SessionQueue(s) == Delegate(s, "queue")

SessionUploadFile(s) == Delegate(s, "uploadFile")

SessionGetHistory(s) == Delegate(s, "getHistory")

\* The call returns: the caller holds the promise of the delegated call, or is
\* back from the close() that had nothing to do.
ReturnOp ==
  /\ ~NoOpInFlight
  /\ lastOp' = NoOp
  /\ mret' = NoMetrics
  /\ UNCHANGED <<poolVars, sessVars, withVars, runVars>>
  /\ UNCHANGED <<clientVars, bk, ex, pipeVars, om, prep, tw, remote>>

\* pool.metrics is read: the getter builds the entries and changes nothing.
ReadMetrics ==
  /\ NoOpInFlight
  /\ mret' = [read |-> TRUE, entries |-> Metrics]
  /\ lastOp' = [s |-> 0, m |-> "metrics", out |-> "none"]
  /\ UNCHANGED <<poolVars, sessVars, withVars, runVars>>
  /\ UNCHANGED <<clientVars, bk, ex, pipeVars, om, prep, tw, remote>>

\* -------------------------------------------------------------- ComfyUIClient
\* private static readonly POLL_DEFAULT_MS = 4_000
PollDefaultMs == 4000

\* backoffBase: options.poll?.backoffBase ?? 2_000
DefaultBackoffBase == 2000

\* backoffCap: options.poll?.backoffCap ?? 15_000
DefaultBackoffCap == 15000

DefaultPollCfg ==
  [interval |-> PollDefaultMs, backoffBase |-> DefaultBackoffBase,
   backoffCap |-> DefaultBackoffCap]

\* The constructor's pollCfg: the defaults, or the caller's poll options.
PollConfigs ==
  { DefaultPollCfg,
    [interval |-> 1000, backoffBase |-> 500, backoffCap |-> 3000] }

PromptIds == {"p1", "p2"}

\* status.messages as the server sends it: missing, or a list of messages.
MessageLists ==
  { [defined |-> FALSE, items |-> <<>>],
    [defined |-> TRUE, items |-> <<>>],
    [defined |-> TRUE, items |-> <<"x">>],
    [defined |-> TRUE, items |-> <<"x", "y">>] }

\* histories[promptId] of a GET /history/{promptId} response: no entry, or a
\* record { status: { status_str, completed, messages }, outputs }.
\* `leaves` are the leaves of the outputs tree in walk order, by kind.
AbsentRecord ==
  [present |-> FALSE, status_str |-> "none", completed |-> FALSE,
   messages |-> [defined |-> FALSE, items |-> <<>>], outputs |-> "undefined",
   leaves |-> <<>>]

\* The leaves a non-empty outputs tree can have: none, strings, binary manifests.
LeafLists ==
  { <<>>, <<"text">>, <<"binary">>, <<"binary", "text">>, <<"binary", "binary">> }

\* Every status with every message list, and every status with every leaf list.
HistoryRecords ==
  {AbsentRecord} \cup
  [present : {TRUE}, status_str : {"success", "error"}, completed : BOOLEAN,
   messages : MessageLists, outputs : {"undefined", "empty", "nonempty"},
   leaves : {<<>>}] \cup
  [present : {TRUE}, status_str : {"success", "error"}, completed : BOOLEAN,
   messages : {[defined |-> FALSE, items |-> <<>>]}, outputs : {"nonempty"},
   leaves : LeafLists]

NoError == [kind |-> "none", text |-> <<>>]

NoCall ==
  [pid |-> "none", resp |-> AbsentRecord, kind |-> "none", text |-> <<>>,
   value |-> AbsentRecord]

\* A piece of a string: text copied as it is, or the JSON string literal of v.
Raw(v) == [t |-> "raw", v |-> v]

Json(v) == [t |-> "json", v |-> v]

\* JSON.stringify of a list of strings: [ "a" , "b" ]
RECURSIVE JsonItems(_)
JsonItems(items) ==
  IF items = <<>> THEN <<>>
  ELSE IF Len(items) = 1 THEN <<Json(Head(items))>>
  ELSE <<Json(Head(items)), Raw(",")>> \o JsonItems(Tail(items))

\* JSON.stringify(rec.status.messages || '{}')
StringifyMessages(m) ==
  IF m.defined
  THEN <<Raw("[")>> \o JsonItems(m.items) \o <<Raw("]")>>
  ELSE <<Json("{}")>>

\* `Prompt ${promptId} failed: ${JSON.stringify(rec.status.messages || '{}')}`
PromptErrorTextNoId(pid, resp) ==
  <<Raw("Prompt failed: ")>> \o StringifyMessages(resp.messages)

PromptErrorText(pid, resp) ==
  <<Raw("Prompt "), Raw(pid), Raw(" failed: ")>> \o StringifyMessages(resp.messages)

\* rec && rec.status?.status_str === 'error'
GetHistoryNeverThrows(resp) == FALSE

GetHistoryThrows(resp) == resp.present /\ resp.status_str = "error"

\* rec?.status.completed && rec.outputs && Object.keys(rec.outputs).length
PollDoneIgnoresOutputs(resp) == resp.present /\ resp.completed

PollDoneIgnoresCompleted(resp) == resp.present /\ resp.outputs = "nonempty"

PollDoneNever(resp) == FALSE

PollDone(resp) == resp.present /\ resp.completed /\ resp.outputs = "nonempty"

\* Math.min(base * 2 ** attempt, cap)
ExponentialBackoffUncapped(k, base, cap) == base * (2 ^ k)

ExponentialBackoff(k, base, cap) ==
  IF base * (2 ^ k) < cap THEN base * (2 ^ k) ELSE cap

\* Bases and caps of a bounded range: small ones, and the sizes of the poll
\* configuration (milliseconds).
Bases == (1 .. MaxSmall) \cup {500, 1000, 2000, 4000, 20000}

Caps == (1 .. MaxSmall) \cup {3000, 15000}

NoBackoff == [base |-> 0, cap |-> 0, attempt |-> -1, out |-> 0, prev |-> 0]

\* exponentialBackoff(attempt, base, cap) for the next attempt of the schedule.
BackoffCall ==
  /\ bk.attempt < MaxAttempt
  /\ bk' = [bk EXCEPT !.attempt = bk.attempt + 1,
                      !.prev = bk.out,
                      !.out = ExponentialBackoff(bk.attempt + 1, bk.base, bk.cap)]
  /\ UNCHANGED <<poolVars, sessVars, withVars, runVars, lastOp, clientVars, ex, pipeVars, om, prep, mret, tw, remote>>

\* const waitMs = exponentialBackoff(attempt, pollCfg.interval, pollCfg.backoffCap)
PollDelay(k) == ExponentialBackoff(k, pollCfg.interval, pollCfg.backoffCap)

NoDirectCall == ghCall.kind = "none"

\* The leaves of one kind among the leaves of a record
LeavesOfKind(resp, kind) == {i \in DOMAIN resp.leaves : resp.leaves[i] = kind}

\* ComfyUIClient.run up to its first await: the workflow is prepared and
\* POST /prompt is issued.
ClientRunCall ==
  /\ NoDirectCall
  /\ cpc = "idle"
  /\ cpc' = "submitting"
  /\ UNCHANGED <<pollCfg, promptId, attempt, waitMs, slept, fetched, rec, cerr, ghCall>>
  /\ UNCHANGED <<downloads, inflight, made>>
  /\ UNCHANGED <<poolVars, sessVars, withVars, runVars, lastOp, utilVars>>

\* POST /prompt settles. On success pollUntilDone starts: attempt = 0, the
\* first delay is computed and the sleep begins. A failed request rejects run.
SubmitReturn(ok, pid) ==
  /\ NoDirectCall
  /\ cpc = "submitting"
  /\ IF ok
     THEN /\ promptId' = pid
          /\ attempt' = 0
          /\ waitMs' = PollDelay(0)
          /\ slept' = slept + 1
          /\ cpc' = "sleeping"
          /\ UNCHANGED cerr
     ELSE /\ cpc' = "rejected"
          /\ cerr' = [kind |-> "transport", text |-> <<Raw("submit")>>]
          /\ UNCHANGED <<promptId, attempt, waitMs, slept>>
  /\ UNCHANGED <<pollCfg, fetched, rec, ghCall, downloads, inflight, made>>
  /\ UNCHANGED <<poolVars, sessVars, withVars, runVars, lastOp, utilVars>>

\* The sleep ends: attempt++, then getHistory issues GET /history/{promptId}.
SleepDoneKeepsAttempt ==
  /\ NoDirectCall
  /\ cpc = "sleeping"
  /\ attempt < MaxPolls
  /\ fetched < MaxPolls
  /\ fetched' = fetched + 1
  /\ cpc' = "fetching"
  /\ UNCHANGED <<pollCfg, promptId, attempt, waitMs, slept, rec, cerr, ghCall>>
  /\ UNCHANGED <<downloads, inflight, made>>
  /\ UNCHANGED <<poolVars, sessVars, withVars, runVars, lastOp, utilVars>>

SleepDone ==
  /\ NoDirectCall
  /\ cpc = "sleeping"
  /\ attempt < MaxPolls
  /\ attempt' = attempt + 1
  /\ fetched' = fetched + 1
  /\ cpc' = "fetching"
  /\ UNCHANGED <<pollCfg, promptId, waitMs, slept, rec, cerr, ghCall>>
  /\ UNCHANGED <<downloads, inflight, made>>
  /\ UNCHANGED <<poolVars, sessVars, withVars, runVars, lastOp, utilVars>>

\* The history request of the poll loop settles. A failed request makes
\* getHistory, pollUntilDone and run reject. Otherwise getHistory throws on an
\* error record; pollUntilDone returns on a completed record with outputs:
\* extractArtifacts walks the outputs and calls leafToArtifact on every leaf,
\* which issues the download of each binary leaf and makes the artifact of
\* each other leaf; on any other record the next delay is computed and the
\* loop sleeps again.
FetchReturnRetries(ok, resp) ==
  /\ NoDirectCall
  /\ cpc = "fetching"
  /\ IF ~ok
     THEN /\ waitMs' = PollDelay(attempt)
          /\ slept' = slept + 1
          /\ cpc' = "sleeping"
          /\ cerr' = [kind |-> "transport", text |-> <<Raw("history")>>]
          /\ UNCHANGED <<rec, downloads, inflight, made>>
     ELSE /\ rec' = resp
          /\ cpc' = "rejected"
          /\ cerr' = [kind |-> "prompt", text |-> PromptErrorText(promptId, resp)]
          /\ UNCHANGED <<waitMs, slept, downloads, inflight, made>>
  /\ UNCHANGED <<pollCfg, promptId, attempt, fetched, ghCall>>
  /\ UNCHANGED <<poolVars, sessVars, withVars, runVars, lastOp, utilVars>>

FetchReturn(ok, resp) ==
  /\ NoDirectCall
  /\ cpc = "fetching"
  /\ IF ~ok
     THEN /\ cpc' = "rejected"
          /\ cerr' = [kind |-> "transport", text |-> <<Raw("history")>>]
          /\ UNCHANGED <<rec, waitMs, slept, downloads, inflight, made>>
     ELSE /\ rec' = resp
          /\ IF GetHistoryThrows(resp)
             THEN /\ cpc' = "rejected"
                  /\ cerr' = [kind |-> "prompt", text |-> PromptErrorText(promptId, resp)]
                  /\ UNCHANGED <<waitMs, slept, downloads, inflight, made>>
             ELSE IF PollDone(resp)
             THEN /\ cpc' = "extracting"
                  /\ downloads' = Cardinality(LeavesOfKind(resp, "binary"))
                  /\ inflight' = Cardinality(LeavesOfKind(resp, "binary"))
                  /\ made' = Cardinality(LeavesOfKind(resp, "text"))
                  /\ UNCHANGED <<cerr, waitMs, slept>>
             ELSE /\ waitMs' = PollDelay(attempt)
                  /\ slept' = slept + 1
                  /\ cpc' = "sleeping"
                  /\ UNCHANGED <<cerr, downloads, inflight, made>>
  /\ UNCHANGED <<pollCfg, promptId, attempt, fetched, ghCall>>
  /\ UNCHANGED <<poolVars, sessVars, withVars, runVars, lastOp, utilVars>>

\* One GET /view of loadResourceBuffer settles: leafToArtifact makes the
\* binary artifact, or the failure rejects Promise.all and with it run; the
\* other downloads are not cancelled.
DownloadReturnSkipsFailed(ok) ==
  /\ NoDirectCall
  /\ inflight > 0
  /\ inflight' = inflight - 1
  /\ made' = IF ok THEN made + 1 ELSE made
  /\ UNCHANGED <<cpc, cerr>>
  /\ UNCHANGED <<pollCfg, promptId, attempt, waitMs, slept, fetched, rec, ghCall, downloads>>
  /\ UNCHANGED <<poolVars, sessVars, withVars, runVars, lastOp, utilVars>>

DownloadReturn(ok) ==
  /\ NoDirectCall
  /\ inflight > 0
  /\ inflight' = inflight - 1
  /\ IF ok
     THEN made' = made + 1 /\ UNCHANGED <<cpc, cerr>>
     ELSE /\ UNCHANGED made
          /\ IF cpc = "extracting"
             THEN /\ cpc' = "rejected"
                  /\ cerr' = [kind |-> "transport", text |-> <<Raw("view")>>]
             ELSE UNCHANGED <<cpc, cerr>>
  /\ UNCHANGED <<pollCfg, promptId, attempt, waitMs, slept, fetched, rec, ghCall, downloads>>
  /\ UNCHANGED <<poolVars, sessVars, withVars, runVars, lastOp, utilVars>>

\* Every leaf has its artifact: extractArtifacts resolves and run returns.
ExtractReturn ==
  /\ NoDirectCall
  /\ cpc = "extracting"
  /\ inflight = 0
  /\ cpc' = "resolved"
  /\ UNCHANGED <<pollCfg, promptId, attempt, waitMs, slept, fetched, rec, cerr, ghCall>>
  /\ UNCHANGED <<downloads, inflight, made>>
  /\ UNCHANGED <<poolVars, sessVars, withVars, runVars, lastOp, utilVars>>

\* return histories
HistoriesReturnedIfCompleted(resp) == IF resp.completed THEN resp ELSE AbsentRecord

HistoriesReturned(resp) == resp

\* A direct getHistory(pid) call whose request returned `resp`: it throws on an
\* error record and returns the fetched map otherwise.
GetHistoryCall(pid, resp) ==
  /\ NoDirectCall
  /\ ghCall' = IF GetHistoryThrows(resp)
               THEN [pid |-> pid, resp |-> resp, kind |-> "rejected",
                     text |-> PromptErrorText(pid, resp), value |-> AbsentRecord]
               ELSE [pid |-> pid, resp |-> resp, kind |-> "resolved", text |-> <<>>,
                     value |-> HistoriesReturned(resp)]
  /\ UNCHANGED <<pollCfg, cpc, promptId, attempt, waitMs, slept, fetched, rec, cerr>>
  /\ UNCHANGED <<downloads, inflight, made>>
  /\ UNCHANGED <<poolVars, sessVars, withVars, runVars, lastOp, utilVars>>

\* The caller has the outcome of the direct getHistory call.
GetHistoryReturn ==
  /\ ~NoDirectCall
  /\ ghCall' = NoCall
  /\ UNCHANGED <<pollCfg, cpc, promptId, attempt, waitMs, slept, fetched, rec, cerr>>
  /\ UNCHANGED <<downloads, inflight, made>>
  /\ UNCHANGED <<poolVars, sessVars, withVars, runVars, lastOp, utilVars>>

\* The records a remote instance goes through for one prompt: none, running,
\* completed without outputs, completed with outputs, failed.
RemoteRecords ==
  { AbsentRecord,
    [present |-> TRUE, status_str |-> "success", completed |-> FALSE,
     messages |-> [defined |-> FALSE, items |-> <<>>], outputs |-> "undefined",
     leaves |-> <<>>],
    [present |-> TRUE, status_str |-> "success", completed |-> TRUE,
     messages |-> [defined |-> FALSE, items |-> <<>>], outputs |-> "empty",
     leaves |-> <<>>],
    [present |-> TRUE, status_str |-> "success", completed |-> TRUE,
     messages |-> [defined |-> FALSE, items |-> <<>>], outputs |-> "nonempty",
     leaves |-> <<"binary", "text">>],
    [present |-> TRUE, status_str |-> "error", completed |-> TRUE,
     messages |-> [defined |-> FALSE, items |-> <<>>], outputs |-> "undefined",
     leaves |-> <<>>] }

\* The remote instance moves the prompt on.
RemoteChanges(resp) ==
  /\ resp # remote
  /\ remote' = resp
  /\ UNCHANGED <<poolVars, sessVars, withVars, runVars, lastOp, clientVars, bk, ex, pipeVars, om, prep, mret, tw>>

\* POST /prompt succeeds.
SubmitAccepted == \E pid \in PromptIds : SubmitReturn(TRUE, pid)

\* GET /history/{promptId} succeeds with the record the remote holds.
FetchRemote == FetchReturn(TRUE, remote)

\* An iteration of the loop of pollUntilDone after MaxPolls of them: the
\* sleep, attempt++ and a successful fetch of the remote's record, with the
\* counters of the model held at MaxPolls.
PollAtCap ==
  /\ NoDirectCall
  /\ cpc = "sleeping"
  /\ attempt = MaxPolls
  /\ rec' = remote
  /\ IF GetHistoryThrows(remote)
     THEN /\ cpc' = "rejected"
          /\ cerr' = [kind |-> "prompt", text |-> PromptErrorText(promptId, remote)]
          /\ UNCHANGED <<waitMs, downloads, inflight, made>>
     ELSE IF PollDone(remote)
     THEN /\ cpc' = "extracting"
          /\ downloads' = Cardinality(LeavesOfKind(remote, "binary"))
          /\ inflight' = Cardinality(LeavesOfKind(remote, "binary"))
          /\ made' = Cardinality(LeavesOfKind(remote, "text"))
          /\ UNCHANGED <<cerr, waitMs>>
     ELSE /\ waitMs' = PollDelay(attempt)
          /\ UNCHANGED <<cpc, cerr, downloads, inflight, made>>
  /\ UNCHANGED <<pollCfg, promptId, attempt, slept, fetched, ghCall>>
  /\ UNCHANGED <<poolVars, sessVars, withVars, runVars, lastOp, utilVars>>

\* ------------------------------------------------- extraction of artifacts
\* Strings are sequences of characters, so that `${path}.${key}` and
\* `${path}[${i}]` are the concatenations the template literals build.
\* Key names and node ids of the server's JSON: any strings.
Keys == { <<"a">>, <<"b">>, <<"a", ".", "b">>, <<"a", "[", "0", "]">> }

NodeIds == { <<"8">>, <<"8", ".", "a">> }

\* A node of the outputs tree: a string, another scalar (number, boolean,
\* null), a binary manifest (a plain object with string filename and type),
\* an array, or a plain object. `kids` are the elements of an array (k unused)
\* or the entries of an object in Object.entries order.
Scalar(t) == [t |-> t, kids |-> <<>>]

Kid(k, v) == [k |-> k, v |-> v]

Arr(items) == [t |-> "arr", kids |-> [i \in DOMAIN items |-> Kid(<<>>, items[i])]]

Obj(entries) == [t |-> "obj", kids |-> entries]

Str == Scalar("str")

Bin == Scalar("bin")

\* The values a field of a node's output can hold.
FieldValues ==
  { Str, Bin, Scalar("num"),
    Arr(<<>>), Arr(<<Str>>), Arr(<<Bin, Str>>), Arr(<<Arr(<<Str>>)>>),
    Arr(<<Obj(<<Kid(<<"b">>, Str)>>)>>),
    Obj(<<>>), Obj(<<Kid(<<"b">>, Str)>>),
    Obj(<<Kid(<<"a">>, Bin), Kid(<<"b">>, Arr(<<Str>>))>>) }

\* Object entries: up to MaxFields fields with distinct key names.
EntryLists ==
  { e \in UNION { [1 .. n -> [k : Keys, v : FieldValues]] : n \in 0 .. MaxFields } :
      \A i, j \in DOMAIN e : i # j => e[i].k # e[j].k }

\* rec.outputs: one node id mapped to that node's output.
OutputsTrees ==
  { <<Kid(id, Obj(e))>> : id \in NodeIds, e \in EntryLists } \cup
  { <<Kid(id, v)>> : id \in NodeIds,
                     v \in {Str, Bin, Scalar("num"), Arr(<<Str>>), Arr(<<Bin, Str>>)} }

NoExtraction == [outputs |-> <<>>, done |-> FALSE, artifacts |-> <<>>]

\* A leaf yielded by walkLeaves and the artifact leafToArtifact makes of it.
Leaf(node, path) ==
  [kind |-> IF node.t = "bin" THEN "binary" ELSE "text", from |-> path]

RECURSIVE WalkLeaves(_, _)
RECURSIVE WalkKids(_, _, _)
\* The leaves of kids i .. of an array or an object, in order.
WalkKids(node, path, i) ==
  IF i > Len(node.kids) THEN <<>>
  ELSE LET kid == node.kids[i]
           sub == IF node.t = "arr"
                  THEN path \o <<"[", ToString(i - 1), "]">>
                  ELSE path \o <<".">> \o kid.k
       IN WalkLeaves(kid.v, sub) \o WalkKids(node, path, i + 1)

\* walkLeaves(node, path): a binary manifest or a string is a leaf; arrays and
\* plain objects are walked; anything else yields nothing.
WalkLeaves(node, path) ==
  IF node.t \in {"bin", "str"} THEN <<Leaf(node, path)>>
  ELSE IF node.t \in {"arr", "obj"} THEN WalkKids(node, path, 1)
  ELSE <<>>

\* lodash isPlainObject: a binary manifest is a plain object too.
IsPlainObjectAny(node) == TRUE

IsPlainObject(node) == node.t \in {"obj", "bin"}

RECURSIVE ExtractFrom(_, _)
\* extractArtifacts followed by unwrapArtifacts: the artifacts of every node
\* whose output is a plain object, in Object.entries order.
ExtractFrom(outputs, i) ==
  IF i > Len(outputs) THEN <<>>
  ELSE (IF IsPlainObject(outputs[i].v)
        THEN WalkLeaves(outputs[i].v, outputs[i].k)
        ELSE <<>>) \o ExtractFrom(outputs, i + 1)

ExtractArtifacts(outputs) == ExtractFrom(outputs, 1)

\* The run extracts the artifacts of the completed prompt's outputs tree.
Extract ==
  /\ ~ex.done
  /\ ex' = [ex EXCEPT !.done = TRUE, !.artifacts = ExtractArtifacts(ex.outputs)]
  /\ UNCHANGED <<poolVars, sessVars, withVars, runVars, lastOp, clientVars, bk, pipeVars, om, prep, mret, tw, remote>>

\* ------------------------------------------------------------ ArtifactPipeline
PipeRuns == 1 .. MaxPipeRuns

\* Processor names: the keys of artifact.pipeline.
ProcNames == {"A", "B"}

\* What a processor's run can return as `output`: a truthy value, or one of
\* the falsy ones (0 and undefined stand for these).
ProcOutputs == {"obj", "zero", "undefined"}

\* A processor: its name, when its shouldRun resolves true ("always" is the
\* default of the base class), the output of its run and whether its run
\* returns a `next` (a text artifact made of the one it was handed).
ProcessorSet ==
  [name : ProcNames, when : {"always", "text"}, output : ProcOutputs,
   next : {"none", "toText"}]

ProcessorLists == UNION { [1 .. n -> ProcessorSet] : n \in 0 .. MaxProcs }

\* Processors whose run rejects.
ThrowingProcessors ==
  [name : ProcNames, when : {"always", "text"}, output : {"throws"},
   next : {"none"}]

\* Processor lists with a processor whose run rejects.
ThrowingProcessorLists ==
  { l \in UNION { [1 .. n -> ProcessorSet \cup ThrowingProcessors] : n \in 1 .. MaxProcs } :
      \E i \in DOMAIN l : l[i].output = "throws" }

NoBus == [n \in ProcNames |-> "absent"]

\* An artifact as extraction makes it: no pipeline property yet.
NewArtifact(kind) ==
  [kind |-> kind, payload |-> "raw", manifest |-> "m0",
   pipeline |-> [defined |-> FALSE, state |-> NoBus]]

\* JavaScript truthiness of a bus entry.
Truthy(v) == v = "obj"

\* processor.shouldRun(artifact)
ShouldRun(proc, a) == proc.when = "always" \/ a.kind = "text"

\* state[processor.name] = output
StoreOutputSkipped(a, proc) == a

StoreOutput(a, proc) ==
  [a EXCEPT !.pipeline.state[proc.name] = proc.output]

\* if (next) Object.assign(artifact, next)
ApplyNextDropped(a, proc) == a

ApplyNext(a, proc) ==
  IF proc.next = "none" THEN a
  ELSE [a EXCEPT !.kind = "text", !.payload = "converted", !.manifest = "m1"]

RECURSIVE NextToAsk(_, _)
\* The loop of processArtifact from processor i on: processors whose bus
\* entry is truthy are passed over without a call; the result is the index
\* of the first one whose shouldRun is called (Len + 1: the loop ends).
NextToAsk(i, state) ==
  IF i > Len(processors) THEN i
  ELSE IF Truthy(state[processors[i].name]) THEN NextToAsk(i + 1, state)
  ELSE i

\* No Pipeline.run call on a tree has been made.
NoTreeWalk == [tree |-> Str, done |-> FALSE, calls |-> <<>>, out |-> Str]

NoPipelineRun == [phase |-> "idle", idx |-> 0, res |-> FALSE]

InitPipelineRuns ==
  /\ tw = NoTreeWalk
  /\ ppc = [r \in PipeRuns |-> NoPipelineRun]
  /\ plog = <<>>
  /\ settled = [r \in PipeRuns |-> NewArtifact("none")]

Invocation(r, i, op, a) == [run |-> r, idx |-> i, op |-> op, seen |-> a]

\* processArtifact goes on with processor i, the artifact being a: it calls
\* the shouldRun of the next processor without a truthy bus entry and
\* suspends on it, or the loop is over and Pipeline.run resolves.
ContinueFrom(r, i, a) ==
  LET j == NextToAsk(i, a.pipeline.state) IN
    IF j > Len(processors)
    THEN /\ ppc' = [ppc EXCEPT ![r] = [phase |-> "done", idx |-> j, res |-> FALSE]]
         /\ settled' = [settled EXCEPT ![r] = a]
         /\ UNCHANGED plog
    ELSE /\ ppc' = [ppc EXCEPT ![r] = [phase |-> "shouldRun", idx |-> j,
                                        res |-> ShouldRun(processors[j], a)]]
         /\ plog' = Append(plog, Invocation(r, j, "shouldRun", a))
         /\ UNCHANGED settled

\* Pipeline.run(artifacts) on the artifact, called once the previous call has
\* resolved: walk reaches the artifact, processArtifact creates the pipeline
\* state if there is none and runs to its first suspension.
PipelineRunCall(r) ==
  /\ ppc[r].phase = "idle"
  /\ \A q \in PipeRuns : q < r => ppc[q].phase = "done"
  /\ LET a == [artifact EXCEPT !.pipeline.defined = TRUE] IN
       /\ artifact' = a
       /\ ContinueFrom(r, 1, a)
  /\ UNCHANGED processors
  /\ UNCHANGED <<poolVars, sessVars, withVars, runVars, lastOp, clientVars, bk, ex, om, prep, mret, tw, remote>>

\* Pipeline.run(artifacts) on the artifact, called while earlier calls may
\* still be suspended in a processor.
PipelineRunConcurrent(r) ==
  /\ ppc[r].phase = "idle"
  /\ \A q \in PipeRuns : q < r => ppc[q].phase # "idle"
  /\ LET a == [artifact EXCEPT !.pipeline.defined = TRUE] IN
       /\ artifact' = a
       /\ ContinueFrom(r, 1, a)
  /\ UNCHANGED processors
  /\ UNCHANGED <<poolVars, sessVars, withVars, runVars, lastOp, clientVars, bk, ex, om, prep, mret, tw, remote>>

\* await processor.shouldRun(artifact) resolves: on true processor.run is
\* called, on false the loop continues with the next processor.
ShouldRunSettleIgnoresResult(r) ==
  /\ ppc[r].phase = "shouldRun"
  /\ ppc' = [ppc EXCEPT ![r].phase = "run"]
  /\ plog' = Append(plog, Invocation(r, ppc[r].idx, "run", artifact))
  /\ UNCHANGED <<settled, processors, artifact>>
  /\ UNCHANGED <<poolVars, sessVars, withVars, runVars, lastOp, clientVars, bk, ex, om, prep, mret, tw, remote>>

ShouldRunSettle(r) ==
  /\ ppc[r].phase = "shouldRun"
  /\ IF ppc[r].res
     THEN /\ ppc' = [ppc EXCEPT ![r].phase = "run"]
          /\ plog' = Append(plog, Invocation(r, ppc[r].idx, "run", artifact))
          /\ UNCHANGED settled
     ELSE ContinueFrom(r, ppc[r].idx + 1, artifact)
  /\ UNCHANGED <<processors, artifact>>
  /\ UNCHANGED <<poolVars, sessVars, withVars, runVars, lastOp, clientVars, bk, ex, om, prep, mret, tw, remote>>

\* await processor.run(artifact) resolves with { output, next }: the output is
\* stored on the bus, next is assigned onto the artifact, the loop continues.
RunSettleSwallows(r) ==
  /\ ppc[r].phase = "run"
  /\ LET proc == processors[ppc[r].idx]
         a == IF proc.output = "throws" THEN artifact
              ELSE ApplyNext(StoreOutput(artifact, proc), proc)
     IN /\ artifact' = a
        /\ ContinueFrom(r, ppc[r].idx + 1, a)
  /\ UNCHANGED processors
  /\ UNCHANGED <<poolVars, sessVars, withVars, runVars, lastOp, clientVars, bk, ex, om, prep, mret, tw, remote>>

\* A rejection of processor.run leaves processArtifact, walk and Pipeline.run
\* at the await: nothing is stored and the call rejects.
RunSettle(r) ==
  /\ ppc[r].phase = "run"
  /\ LET proc == processors[ppc[r].idx]
         a == ApplyNext(StoreOutput(artifact, proc), proc)
     IN IF proc.output = "throws"
        THEN /\ ppc' = [ppc EXCEPT ![r].phase = "rejected"]
             /\ UNCHANGED <<artifact, plog, settled>>
        ELSE /\ artifact' = a
             /\ ContinueFrom(r, ppc[r].idx + 1, a)
  /\ UNCHANGED processors
  /\ UNCHANGED <<poolVars, sessVars, withVars, runVars, lastOp, clientVars, bk, ex, om, prep, mret, tw, remote>>

\* The walk of ArtifactPipeline.run over its argument. Trees are built as the
\* outputs trees are: arrays and plain objects with their elements and entries.
KindKey == <<"kind">>

PayloadKey == <<"payload">>

PipelineKey == <<"pipeline">>

HasKey(node, key) == \E i \in DOMAIN node.kids : node.kids[i].k = key

\* isArtifact(node): a plain object with the properties kind and payload
IsArtifactKindOnly(node) == node.t = "obj" /\ HasKey(node, KindKey)

IsArtifact(node) ==
  node.t = "obj" /\ HasKey(node, KindKey) /\ HasKey(node, PayloadKey)

\* An artifact as extraction makes it, one whose payload is itself an object
\* with kind and payload, and one that has been through a pipeline.
TextArtifact == Obj(<<Kid(KindKey, Str), Kid(PayloadKey, Str)>>)

WrappingArtifact == Obj(<<Kid(KindKey, Str), Kid(PayloadKey, TextArtifact)>>)

ProcessedArtifact ==
  Obj(<<Kid(KindKey, Str), Kid(PayloadKey, Str), Kid(PipelineKey, Obj(<<>>))>>)

\* The elements a list or a mapping handed to Pipeline.run can hold.
TreeItems ==
  { Str, Scalar("num"), TextArtifact, WrappingArtifact, ProcessedArtifact,
    Obj(<<Kid(KindKey, Str)>>), Obj(<<Kid(KindKey, TextArtifact)>>),
    Arr(<<>>), Arr(<<TextArtifact>>), Arr(<<Arr(<<TextArtifact, Str>>)>>),
    Obj(<<Kid(<<"a">>, TextArtifact)>>),
    Obj(<<Kid(<<"a">>, Obj(<<Kid(<<"b">>, TextArtifact)>>))>>) }

TreeKeys == <<<<"a">>, <<"b">>, <<"c">>>>

\* artifacts: Artifact[] | Record<string, Artifact>
ArtifactTrees ==
  UNION { { Arr(items) : items \in [1 .. n -> TreeItems] } \cup
          { Obj([i \in 1 .. n |-> Kid(TreeKeys[i], items[i])]) :
              items \in [1 .. n -> TreeItems] } : n \in 0 .. MaxItems }

\* processArtifact(artifact) with no processor left to run:
\* artifact.pipeline ?? (artifact.pipeline = {})
ProcessArtifact(node) ==
  IF HasKey(node, PipelineKey) THEN node
  ELSE Obj(Append(node.kids, Kid(PipelineKey, Obj(<<>>))))

RECURSIVE WalkCalls(_, _)
RECURSIVE WalkCallsFrom(_, _, _)
\* for (const x of node) await walk(x) / for (const v of Object.values(node))
WalkCallsFrom(node, path, i) ==
  IF i > Len(node.kids) THEN <<>>
  ELSE WalkCalls(node.kids[i].v, Append(path, i)) \o WalkCallsFrom(node, path, i + 1)

\* walk(node): the artifacts processArtifact is called on, by their position
\* in the tree, in call order.
WalkCalls(node, path) ==
  IF node.t = "arr" THEN WalkCallsFrom(node, path, 1)
  ELSE IF node.t = "obj"
  THEN IF IsArtifact(node) THEN <<path>> ELSE WalkCallsFrom(node, path, 1)
  ELSE <<>>

RECURSIVE WalkTree(_)
\* The tree after walk(node): the artifacts are processed in place.
WalkTree(node) ==
  IF node.t = "arr" \/ (node.t = "obj" /\ ~IsArtifact(node))
  THEN [node EXCEPT !.kids = [i \in DOMAIN node.kids |->
                                Kid(node.kids[i].k, WalkTree(node.kids[i].v))]]
  ELSE IF node.t = "obj" THEN ProcessArtifact(node)
  ELSE node

\* Pipeline.run(artifacts): await walk(artifacts); return artifacts
PipelineWalk ==
  /\ ~tw.done
  /\ tw' = [tw EXCEPT !.done = TRUE, !.calls = WalkCalls(tw.tree, <<>>),
                      !.out = WalkTree(tw.tree)]
  /\ UNCHANGED <<poolVars, sessVars, withVars, runVars, lastOp, clientVars, bk, ex, pipeVars, om, prep, mret, remote>>

\* ------------------------------------------------ input and output mappings
\* A `to` string is a sequence of tokens, "." being the separator character;
\* to.split('.') is the sequence of the keys between the separators.
RECURSIVE SplitFrom(_, _, _)
SplitFrom(str, i, cur) ==
  IF i > Len(str) THEN <<cur>>
  ELSE IF str[i] = "." THEN <<cur>> \o SplitFrom(str, i + 1, <<>>)
  ELSE SplitFrom(str, i + 1, Append(cur, str[i]))

Split(str) == SplitFrom(str, 1, <<>>)

\* path p is a prefix of path q (or equal to it)
IsPrefix(p, q) == Len(p) <= Len(q) /\ SubSeq(q, 1, Len(p)) = p

\* An object tree is the set of its filled paths: [path, val] records.
\* lodash set(object, path, value): whatever was at the path or below it is
\* replaced by the value; an object on the way gets a new property, a
\* primitive on the way (a value of `prims`) is replaced by a new object.
SetPath(tree, path, val, prims) ==
  { e \in tree : /\ ~IsPrefix(path, e.path)
                 /\ ~(IsPrefix(e.path, path) /\ e.val \in prims) }
    \cup {[path |-> path, val |-> val]}

\* object[key] for a top-level property name
GetKey(tree, key, undef) ==
  IF \E e \in tree : e.path = <<key>>
  THEN (CHOOSE e \in tree : e.path = <<key>>).val
  ELSE undef

\* manifest.from values: compared by exact string equality
Froms == {"8.images[0]", "9.text[0]"}

\* `to` names of an output mapping
OutputTos == { <<"image">>, <<"caption">>, <<"image", ".", "main">> }

MappedArtifacts == [from : Froms, payload : {"x", "y"}]

ArtifactLists == UNION { [1 .. n -> MappedArtifacts] : n \in 0 .. MaxArts }

\* node.outputs: entries { from, to, defaultValue } with distinct `to` names
OutputMappings ==
  { m \in UNION { [1 .. n -> [from : Froms, to : OutputTos,
                               defaultValue : {"undefined", "fallback"}]] :
                  n \in 0 .. MaxMap } :
      \A i, j \in DOMAIN m : i # j => m[i].to # m[j].to }

NoArtifact == [from |-> "undefined", payload |-> "undefined"]

NoOutputMapping ==
  [artifacts |-> <<>>, outputs |-> <<>>, done |-> FALSE, shape |-> "none",
   map |-> {}]

\* byFrom.get(from): the last artifact stored under `from`
ByFrom(artifacts, from) ==
  LET hits == {i \in DOMAIN artifacts : artifacts[i].from = from} IN
    IF hits = {} THEN NoArtifact
    ELSE artifacts[CHOOSE i \in hits : \A j \in hits : j <= i]

\* { ...art, payload: value }
Spread(art, value) == [art |-> art, payload |-> value]

RECURSIVE ApplyOutputsFrom(_, _, _, _)
\* outputs.forEach(...) of applyNodeOutputs from entry i on
ApplyOutputsFrom(response, artifacts, outputs, i) ==
  IF i > Len(outputs) THEN response
  ELSE LET art == ByFrom(artifacts, outputs[i].from)
           value == IF art # NoArtifact THEN art.payload ELSE outputs[i].defaultValue
           next == IF value # "undefined"
                   THEN SetPath(response, Split(outputs[i].to), Spread(art, value), {})
                   ELSE response
       IN ApplyOutputsFrom(next, artifacts, outputs, i + 1)

ApplyNodeOutputs(artifacts, outputs) == ApplyOutputsFrom({}, artifacts, outputs, 1)

\* return options?.node?.outputs?.length ? applyNodeOutputs(...) : artifacts
ReturnOutputs ==
  /\ ~om.done
  /\ om' = IF Len(om.outputs) > 0
           THEN [om EXCEPT !.done = TRUE, !.shape = "map",
                           !.map = ApplyNodeOutputs(om.artifacts, om.outputs)]
           ELSE [om EXCEPT !.done = TRUE, !.shape = "array"]
  /\ UNCHANGED <<poolVars, sessVars, withVars, runVars, lastOp, clientVars, bk, ex, pipeVars, prep, mret, tw, remote>>

\* Keys of options.inputs
InputKeys == {"prompt", "seed"}

\* options.inputs[key]: no such key, null, or a value
InputValues == {"absent", "null", "v1"}

\* `to` paths of an input mapping: two that exist in the workflow, one that
\* does not
InputTos ==
  { <<"6", ".", "inputs", ".", "text">>, <<"6", ".", "inputs", ".", "seed">>,
    <<"9", ".", "inputs", ".", "text">> }

\* node.inputs: entries { from, to, required, defaultValue } with distinct
\* `to` paths
InputMappings ==
  { m \in UNION { [1 .. n -> [from : InputKeys, to : InputTos, required : BOOLEAN,
                               defaultValue : {"undefined", "fallback"}]] :
                  n \in 0 .. MaxMap } :
      \A i, j \in DOMAIN m : i # j => m[i].to # m[j].to }

\* options.node: absent, or a config with an input mapping
NodeConfigs ==
  {[defined |-> FALSE, inputs |-> <<>>]} \cup
  [defined : {TRUE}, inputs : InputMappings]

\* The primitive values found in a workflow
WorkflowValues == {"old", "s0", "v1", "fallback"}

\* The caller's workflow: node 6 with a text and a seed input, or with none
Workflows ==
  { { [path |-> <<<<"6">>, <<"inputs">>, <<"text">>>>, val |-> "old"],
      [path |-> <<<<"6">>, <<"inputs">>, <<"seed">>>>, val |-> "s0"] },
    { [path |-> <<<<"6">>, <<"class_type">>>>, val |-> "old"] } }

NoPrepare ==
  [op |-> "none", workflow |-> {}, original |-> {},
   node |-> [defined |-> FALSE, inputs |-> <<>>],
   inputs |-> [k \in InputKeys |-> "absent"], posted |-> <<>>,
   outcome |-> "none", handle |-> "none"]

\* validateInputs(node, inputs) throws 'Missing required inputs: ...': some
\* required input's `from` is not a key of inputs.
MissingRequired(node, inputs) ==
  \E i \in DOMAIN node.inputs :
    node.inputs[i].required /\ inputs[node.inputs[i].from] = "absent"

\* An object of the heap: `ref` tells the caller's workflow object from a
\* clone of it, `tree` is its content.
CloneAliased(obj) == obj

\* structuredClone(originalWorkflow)
StructuredClone(obj) == [ref |-> "clone", tree |-> obj.tree]

\* inputs[from] ?? defaultValue
ResolveInput(inputs, entry) ==
  IF inputs[entry.from] \in {"absent", "null"} THEN entry.defaultValue
  ELSE inputs[entry.from]

RECURSIVE ApplyInputsFrom(_, _, _, _)
\* node.forEach(...) of applyNodeInputs from entry i on
ApplyInputsFrom(cloned, node, inputs, i) ==
  IF i > Len(node) THEN cloned
  ELSE LET value == ResolveInput(inputs, node[i])
           next == IF value # "undefined"
                   THEN [cloned EXCEPT !.tree = SetPath(cloned.tree, Split(node[i].to),
                                                        value, WorkflowValues)]
                   ELSE cloned
       IN ApplyInputsFrom(next, node, inputs, i + 1)

ApplyNodeInputs(originalWorkflow, node, inputs) ==
  ApplyInputsFrom(StructuredClone(originalWorkflow), node, inputs, 1)

\* options?.node ? applyNodeInputs(workflow, options.node.inputs, options?.inputs)
\*               : workflow
PreparedPayload ==
  LET workflow == [ref |-> "workflow", tree |-> prep.workflow] IN
    IF prep.node.defined
    THEN ApplyNodeInputs(workflow, prep.node.inputs, prep.inputs)
    ELSE workflow

\* await request(`${baseUrl}/prompt`, { method: 'POST', body }): one request
\* with the prepared payload as the body's prompt.
PostTwice(posted, prepared) == posted \o <<prepared, prepared>>

PostPrompt(posted, prepared) == Append(posted, prepared)

\* run / queue up to their first await: the payload is prepared and
\* POST /prompt is issued with it as the body's prompt. What was written
\* into the caller's own object stays in it.
PrepareAndPost(op) ==
  /\ prep.op = "none"
  /\ LET prepared == PreparedPayload IN
       prep' = [prep EXCEPT !.op = op,
                            !.workflow = IF prepared.ref = "workflow"
                                         THEN prepared.tree ELSE prep.workflow,
                            !.posted = PostPrompt(prep.posted, prepared)]
  /\ UNCHANGED <<poolVars, sessVars, withVars, runVars, lastOp, clientVars, bk, ex, pipeVars, om, mret, tw, remote>>

ClientRunPrepare == PrepareAndPost("run")

ClientQueuePrepare == PrepareAndPost("queue")

\* The POST /prompt of queue settles: queue returns the response, whose
\* prompt_id is the prompt handle, or rejects with the request's failure.
QueueSettle(ok, pid) ==
  /\ prep.op = "queue"
  /\ prep.outcome = "none"
  /\ prep' = IF ok THEN [prep EXCEPT !.outcome = "resolved", !.handle = pid]
             ELSE [prep EXCEPT !.outcome = "rejected"]
  /\ UNCHANGED <<poolVars, sessVars, withVars, runVars, lastOp, clientVars, bk, ex, pipeVars, om, mret, tw, remote>>

\* ------------------------------------------------------------ specifications
\* The client before any call; its poll configuration is the constructor's.
InitClient ==
  /\ pollCfg \in PollConfigs
  /\ cpc = "idle"
  /\ promptId = "none"
  /\ attempt = 0
  /\ waitMs = 0
  /\ slept = 0
  /\ fetched = 0
  /\ rec = AbsentRecord
  /\ cerr = NoError
  /\ ghCall = NoCall
  /\ downloads = 0
  /\ inflight = 0
  /\ made = 0
  /\ remote = AbsentRecord

\* No utility function has been called.
InitUtils ==
  /\ bk = NoBackoff
  /\ ex = NoExtraction
  /\ processors = <<>>
  /\ InitPipelineRuns
  /\ artifact = NewArtifact("text")
  /\ om = NoOutputMapping
  /\ prep = NoPrepare

InitPoolState ==
  /\ sessionCounts = [i \in Instances |-> 0]
  /\ phantomCount = "undefined"
  /\ sess = [s \in Slots |-> "none"]
  /\ inst = [s \in Slots |-> -1]
  /\ pipe = [s \in Slots |-> FALSE]
  /\ wpc = [s \in Slots |-> "none"]
  /\ fnOut = [s \in Slots |-> NoOutcome]
  /\ wOut = [s \in Slots |-> NoOutcome]
  /\ releases = [s \in Slots |-> 0]
  /\ rsess = [r \in Runs |-> 0]
  /\ rpc = [r \in Runs |-> "idle"]
  /\ calledOpen = [r \in Runs |-> FALSE]
  /\ waiting = [i \in Instances |-> <<>>]
  /\ pending = [i \in Instances |-> 0]
  /\ lastOp = NoOp
  /\ mret = NoMetrics

\* A pool as its constructor leaves it; no client call is followed.
Init ==
  /\ \E n \in 1 .. MaxInstances : maxConcurrencies \in [0 .. (n - 1) -> 1 .. MaxCap]
  /\ InitPoolState
  /\ InitClient
  /\ InitUtils
  /\ pollCfg = DefaultPollCfg

Next ==
  \/ \E s \in Slots : CreateSession(s, FALSE)
  \/ \E s \in Slots : WithSessionCall(s, FALSE)
  \/ \E s \in Slots, out \in FnOutcomes : FnSettle(s, out)
  \/ \E s \in Slots : WithSessionFinally(s)
  \/ \E s \in Slots : Close(s)
  \/ ReturnOp

Spec == Init /\ [][Next]_vars

\* The pool with sessions created and closed, and its metrics read in between.
NextMetrics ==
  \/ \E s \in Slots : CreateSession(s, FALSE)
  \/ \E s \in Slots : Close(s)
  \/ ReadMetrics
  \/ ReturnOp

SpecMetrics == Init /\ [][NextMetrics]_vars

\* A pool of one node as its constructor leaves it.
InitSession ==
  /\ maxConcurrencies \in [{0} -> RunCaps]
  /\ InitPoolState
  /\ InitClient
  /\ InitUtils
  /\ pollCfg = DefaultPollCfg

NextSession ==
  \/ \E s \in RunSlots, p \in BOOLEAN : CreateSession(s, p)
  \/ \E s \in RunSlots : Close(s)
  \/ \E r \in Runs, s \in RunSlots : SessionRun(r, s)
  \/ \E r \in Runs, ok \in BOOLEAN : ClientRunSettle(r, ok)
  \/ \E r \in Runs, ok \in BOOLEAN : PipelineSettle(r, ok)
  \/ \E s \in RunSlots : SessionQueue(s)
  \/ \E s \in RunSlots : SessionUploadFile(s)
  \/ \E s \in RunSlots : SessionGetHistory(s)
  \/ ReturnOp

SpecSession == InitSession /\ [][NextSession]_vars

\* One client, one run call and any number of direct getHistory calls, against
\* a server that may answer each history request with any record.
InitClientOnly ==
  /\ maxConcurrencies = [i \in {0} |-> 1]
  /\ InitPoolState
  /\ InitClient
  /\ InitUtils

NextClient ==
  \/ ClientRunCall
  \/ \E ok \in BOOLEAN, pid \in PromptIds : SubmitReturn(ok, pid)
  \/ SleepDone
  \/ \E ok \in BOOLEAN, resp \in HistoryRecords : FetchReturn(ok, resp)
  \/ \E ok \in BOOLEAN : DownloadReturn(ok)
  \/ ExtractReturn
  \/ \E pid \in PromptIds, resp \in HistoryRecords : GetHistoryCall(pid, resp)
  \/ GetHistoryReturn

SpecClient == InitClientOnly /\ [][NextClient]_vars

\* One run against a remote instance that answers every request, polled for
\* as long as the loop goes on. The runtime resumes every task whose promise
\* has settled, and sleeps, requests and downloads settle.
NextLive ==
  \/ ClientRunCall
  \/ SubmitAccepted
  \/ SleepDone
  \/ FetchRemote
  \/ PollAtCap
  \/ \E ok \in BOOLEAN : DownloadReturn(ok)
  \/ ExtractReturn
  \/ \E resp \in RemoteRecords : RemoteChanges(resp)

SpecLive ==
  /\ InitClientOnly
  /\ [][NextLive]_vars
  /\ WF_vars(SubmitAccepted)
  /\ WF_vars(SleepDone)
  /\ WF_vars(FetchRemote)
  /\ WF_vars(PollAtCap)
  /\ WF_vars(\E ok \in BOOLEAN : DownloadReturn(ok))
  /\ WF_vars(ExtractReturn)

\* A backoff schedule for any base and cap of the range, before its first call.
InitBackoff ==
  /\ maxConcurrencies = [i \in {0} |-> 1]
  /\ InitPoolState
  /\ InitClient
  /\ pollCfg = DefaultPollCfg
  /\ bk \in [base : Bases, cap : Caps, attempt : {-1}, out : {0}, prev : {0}]
  /\ ex = NoExtraction
  /\ processors = <<>>
  /\ InitPipelineRuns
  /\ artifact = NewArtifact("text")
  /\ om = NoOutputMapping
  /\ prep = NoPrepare

NextBackoff == BackoffCall

SpecBackoff == InitBackoff /\ [][NextBackoff]_vars

\* A completed prompt with any outputs tree of the range, before extraction.
InitExtract ==
  /\ maxConcurrencies = [i \in {0} |-> 1]
  /\ InitPoolState
  /\ InitClient
  /\ pollCfg = DefaultPollCfg
  /\ bk = NoBackoff
  /\ ex \in [outputs : OutputsTrees, done : {FALSE}, artifacts : {<<>>}]
  /\ processors = <<>>
  /\ InitPipelineRuns
  /\ artifact = NewArtifact("text")
  /\ om = NoOutputMapping
  /\ prep = NoPrepare

NextExtract == Extract

SpecExtract == InitExtract /\ [][NextExtract]_vars

\* A pipeline of any processors of the range and a fresh artifact of either
\* kind; Pipeline.run is called on it again and again.
InitPipeline ==
  /\ maxConcurrencies = [i \in {0} |-> 1]
  /\ InitPoolState
  /\ InitClient
  /\ pollCfg = DefaultPollCfg
  /\ bk = NoBackoff
  /\ ex = NoExtraction
  /\ processors \in ProcessorLists
  /\ InitPipelineRuns
  /\ \E kind \in {"binary", "text"} : artifact = NewArtifact(kind)
  /\ om = NoOutputMapping
  /\ prep = NoPrepare

NextPipeline ==
  \/ \E r \in PipeRuns : PipelineRunCall(r)
  \/ \E r \in PipeRuns : ShouldRunSettle(r)
  \/ \E r \in PipeRuns : RunSettle(r)

SpecPipeline == InitPipeline /\ [][NextPipeline]_vars

\* A pipeline with a processor whose run rejects.
InitReject ==
  /\ maxConcurrencies = [i \in {0} |-> 1]
  /\ InitPoolState
  /\ InitClient
  /\ pollCfg = DefaultPollCfg
  /\ bk = NoBackoff
  /\ ex = NoExtraction
  /\ processors \in ThrowingProcessorLists
  /\ InitPipelineRuns
  /\ \E kind \in {"binary", "text"} : artifact = NewArtifact(kind)
  /\ om = NoOutputMapping
  /\ prep = NoPrepare

SpecReject == InitReject /\ [][NextPipeline]_vars

\* Pipeline.run calls on one artifact that overlap in time.
NextConcurrent ==
  \/ \E r \in PipeRuns : PipelineRunConcurrent(r)
  \/ \E r \in PipeRuns : ShouldRunSettle(r)
  \/ \E r \in PipeRuns : RunSettle(r)

SpecConcurrent == InitPipeline /\ [][NextConcurrent]_vars

\* Pipeline.run on a tree of artifacts of a bounded range.
InitWalk ==
  /\ maxConcurrencies = [i \in {0} |-> 1]
  /\ InitPoolState
  /\ InitClient
  /\ pollCfg = DefaultPollCfg
  /\ bk = NoBackoff
  /\ ex = NoExtraction
  /\ processors = <<>>
  /\ ppc = [r \in PipeRuns |-> NoPipelineRun]
  /\ plog = <<>>
  /\ settled = [r \in PipeRuns |-> NewArtifact("none")]
  /\ artifact = NewArtifact("text")
  /\ om = NoOutputMapping
  /\ prep = NoPrepare
  /\ tw \in [tree : ArtifactTrees, done : {FALSE}, calls : {<<>>}, out : {Str}]

NextWalk == PipelineWalk

SpecWalk == InitWalk /\ [][NextWalk]_vars

\* A run about to return: any artifacts and any output mapping of the range.
InitOutputs ==
  /\ maxConcurrencies = [i \in {0} |-> 1]
  /\ InitPoolState
  /\ InitClient
  /\ pollCfg = DefaultPollCfg
  /\ bk = NoBackoff
  /\ ex = NoExtraction
  /\ processors = <<>>
  /\ InitPipelineRuns
  /\ artifact = NewArtifact("text")
  /\ om \in [artifacts : ArtifactLists, outputs : OutputMappings, done : {FALSE},
              shape : {"none"}, map : {{}}]
  /\ prep = NoPrepare

NextOutputs == ReturnOutputs

SpecOutputs == InitOutputs /\ [][NextOutputs]_vars

\* A caller about to call run or queue with any workflow, node config and
\* inputs of the range.
InitPrepare ==
  /\ maxConcurrencies = [i \in {0} |-> 1]
  /\ InitPoolState
  /\ InitClient
  /\ pollCfg = DefaultPollCfg
  /\ bk = NoBackoff
  /\ ex = NoExtraction
  /\ processors = <<>>
  /\ InitPipelineRuns
  /\ artifact = NewArtifact("text")
  /\ om = NoOutputMapping
  /\ \E w \in Workflows :
       prep \in [op : {"none"}, workflow : {w}, original : {w}, node : NodeConfigs,
                 inputs : [InputKeys -> InputValues], posted : {<<>>},
                 outcome : {"none"}, handle : {"none"}]

NextPrepare ==
  \/ ClientRunPrepare
  \/ ClientQueuePrepare
  \/ \E ok \in BOOLEAN, pid \in PromptIds : QueueSettle(ok, pid)

SpecPrepare == InitPrepare /\ [][NextPrepare]_vars

\* ------------------------------------------------------------------- claims
AllSaturated == \A i \in Instances : ~Available(i)

Created(s) == sess[s] \in {"open", "closed"}

\* C1: in every reachable pool state, every instance i has
\* sessionCounts[i] <= maxConcurrencies[i].
C1_CountWithinCap ==
  \A i \in Instances : sessionCounts[i] <= maxConcurrencies[i]

\* A saturated pool on which one more createSession / withSession call has acted.
C1_Witness ==
  /\ AllSaturated
  /\ \E s \in Slots : Created(s) /\ inst[s] \notin Instances
  /\ \E s \in Slots : sess[s] = "closed" /\ inst[s] \in Instances

\* C2: a createSession / withSession call made while every instance is at its
\* cap yields no session (null) and changes no counter.
C2_SaturatedYieldsNull ==
  [][\A s \in Slots :
       (AllSaturated /\ sess[s] = "none" /\ sess'[s] # "none")
         => (sess'[s] = "null" /\ UNCHANGED <<sessionCounts, phantomCount>>)]_vars

\* C3: withSession called while every instance is at its cap rejects with the
\* pool-saturation error and never invokes fn.
C3_SaturatedWithSessionRejects ==
  [][\A s \in Slots :
       (AllSaturated /\ WithSessionCall(s, FALSE)) => wpc'[s] = "saturated"]_vars

\* C4: once fn has settled, withSession closes the session, which decrements
\* the counter of the session's instance by exactly one (once per session, also
\* when fn closed the session itself), nothing keeps the finally block from
\* running, and withSession settles exactly as fn did.
C4_WithSessionReleases ==
  /\ [](\A s \in Slots :
          /\ wpc[s] = "done"
               => (sess[s] = "closed" /\ releases[s] = 1 /\ wOut[s] = fnOut[s])
          /\ (wpc[s] = "fnSettled" /\ NoOpInFlight) => ENABLED WithSessionFinally(s))
  /\ [][\A s \in Slots :
          (wpc[s] = "fnSettled" /\ wpc'[s] = "done" /\ inst[s] \in Instances)
            => /\ sess[s] = "open" =>
                    sessionCounts' = [sessionCounts EXCEPT ![inst[s]] = @ - 1]
               /\ sess[s] = "closed" => sessionCounts' = sessionCounts]_vars

\* withSession has passed on fn's rejection after closing its session, which
\* gave the slot of a real instance back.
C4_Witness ==
  \E s \in Slots :
    /\ wpc[s] = "done" /\ inst[s] \in Instances
    /\ wOut[s].kind = "rejected"
    /\ sessionCounts[inst[s]] = 0

\* The instance the specification of acquire names: lowest current/max among
\* the instances with current < max, lowest index among equal ratios.
LowestRatioChoice ==
  CHOOSE i \in Instances :
    /\ Available(i)
    /\ \A j \in Instances :
         Available(j) =>
           \/ sessionCounts[i] * maxConcurrencies[j] < sessionCounts[j] * maxConcurrencies[i]
           \/ /\ sessionCounts[i] * maxConcurrencies[j] = sessionCounts[j] * maxConcurrencies[i]
              /\ i <= j

\* C5: whenever some instance has current < max, the session created by
\* createSession / withSession is bound to the instance with the lowest ratio
\* current/max among those with current < max, the lowest index among ties.
C5_LeastLoadedChosen ==
  [][\A s \in Slots :
       (~AllSaturated /\ sess[s] = "none" /\ sess'[s] # "none")
         => (sess'[s] = "open" /\ inst'[s] = LowestRatioChoice)]_vars

\* Pool A(max=2), B(max=1): the first session went to A (tie, lowest index), the
\* second, acquired while the first was open, to B (ratio 0 < 1/2).
C5_Witness ==
  /\ DOMAIN maxConcurrencies = {0, 1}
  /\ maxConcurrencies[0] = 2 /\ maxConcurrencies[1] = 1
  /\ sess[1] = "open" /\ inst[1] = 0
  /\ Created(2) /\ inst[2] = 1

\* C6: however often close() is called on a session, lease.release() runs
\* exactly once, and a close() on a closed session changes no state of the
\* session or the pool.
C6_CloseIdempotent ==
  /\ [](\A s \in Slots : releases[s] = IF sess[s] = "closed" THEN 1 ELSE 0)
  /\ [][\A s \in Slots :
          (sess[s] = "closed" /\ (Close(s) \/ WithSessionFinally(s)))
            => UNCHANGED <<sessionCounts, phantomCount, sess, inst, releases>>]_vars

\* A close() has just returned from a session that was closed already.
C6_Witness ==
  /\ lastOp.m = "close"
  /\ sess[lastOp.s] = "closed"
  /\ releases[lastOp.s] = 1
  /\ inst[lastOp.s] \in Instances

\* C7: on a closed session run, queue, uploadFile and getHistory fail with the
\* session-closed error, no task is added to the queue and no client method is
\* called, and the session stays closed.
C7_ClosedSessionRejects ==
  [][\A s \in Slots :
       sess[s] = "closed" =>
         /\ sess'[s] = "closed"
         /\ (SessionQueue(s) \/ SessionUploadFile(s) \/ SessionGetHistory(s))
              => lastOp'.out = "rejClosed"
         /\ \A r \in Runs :
              SessionRun(r, s) => (rpc'[r] = "rejClosed" /\ UNCHANGED <<waiting, pending>>)]_vars

\* A closed session that has rejected a run() and is rejecting a delegated call.
C7_Witness ==
  \E s \in Slots :
    /\ sess[s] = "closed"
    /\ lastOp.s = s /\ lastOp.out = "rejClosed"
    /\ \E r \in Runs : rsess[r] = s /\ rpc[r] = "rejClosed"

\* C8 as stated: once the session is closed, none of its run() calls starts its
\* queued client call or its pipeline, also not those made before close().
C8_NoOperationAfterClose ==
  [][\A r \in Runs :
       (rsess[r] # 0 /\ sess[rsess[r]] = "closed")
         => ~ \/ rpc[r] = "queued" /\ rpc'[r] = "running"
              \/ rpc[r] = "running" /\ rpc'[r] = "pipeline"]_vars

\* C8 as amended: every run() call that is queued, running, in its pipeline or
\* settled by the client or the pipeline was made while the session was open;
\* a run() made after close() never gets past the session-closed rejection.
C8_OnlyRunsCalledBeforeClose ==
  \A r \in Runs :
    rpc[r] \in {"queued", "running", "pipeline", "resolved", "rejClient", "rejPipeline"}
      => calledOpen[r]

\* A closed session with a run() still at work and another run() rejected.
C8_Witness ==
  \E r, q \in Runs :
    /\ rsess[r] # 0 /\ rsess[q] = rsess[r]
    /\ sess[rsess[r]] = "closed"
    /\ rpc[r] \in {"queued", "running", "pipeline"}
    /\ rpc[q] = "rejClosed"

\* The Client.run calls executing on instance i.
RunningOn(i) == {r \in Runs : rpc[r] = "running" /\ inst[rsess[r]] = i}

\* C9: at most maxConcurrencies[i] Client.run calls started through Session.run
\* execute on instance i at any time.
C9_RunningWithinCap ==
  \A i \in Instances : Cardinality(RunningOn(i)) <= maxConcurrencies[i]

\* The instance runs as many tasks as it may while a task of another session waits.
C9_Witness ==
  \E i \in Instances :
    /\ Cardinality(RunningOn(i)) = maxConcurrencies[i]
    /\ waiting[i] # <<>>
    /\ \E r \in RunningOn(i) : rsess[Head(waiting[i])] # rsess[r]

\* A history record whose status_str is "error".
IsErrorRecord(resp) == resp.present /\ resp.status_str = "error"

\* The text holds the prompt id and every message of the list.
TextNames(text, pid, m) ==
  /\ \E i \in DOMAIN text : text[i] = Raw(pid)
  /\ \A k \in DOMAIN m.items : \E i \in DOMAIN text : text[i] = Json(m.items[k])

\* C10: a history response whose record has status_str "error" makes
\* getHistory reject with a text holding the prompt id and the server's
\* messages; run() rejects with it in the same step, and never sleeps or
\* fetches again.
C10_ErrorRecordRejects ==
  /\ [](/\ cerr.kind = "prompt"
             => /\ cpc = "rejected" /\ IsErrorRecord(rec)
                /\ TextNames(cerr.text, promptId, rec.messages)
        /\ (ghCall.kind # "none" /\ IsErrorRecord(ghCall.resp))
             => /\ ghCall.kind = "rejected"
                /\ TextNames(ghCall.text, ghCall.pid, ghCall.resp.messages))
  /\ [][\A resp \in HistoryRecords :
          (IsErrorRecord(resp) /\ FetchReturn(TRUE, resp))
            => /\ cpc' = "rejected" /\ cerr'.kind = "prompt"
               /\ slept' = slept /\ fetched' = fetched]_vars
  /\ [][cpc = "rejected" => UNCHANGED <<cpc, cerr, slept, fetched>>]_vars

\* run() has rejected on an error record that came after an earlier poll.
C10_Witness ==
  /\ cpc = "rejected" /\ cerr.kind = "prompt"
  /\ fetched >= 2
  /\ rec.messages.items = <<"x", "y">>

\* A record with completed == true and a non-empty outputs tree.
CompletedWithOutputs(resp) ==
  resp.present /\ resp.completed /\ resp.outputs = "nonempty"

\* A history request of the poll loop has just been answered with a record.
FetchAnswered == cpc = "fetching" /\ cpc' # "fetching" /\ cerr'.kind # "transport"

\* C11 (as stated): the poll loop ends successfully exactly at the first fetch
\* whose record is completed with non-empty outputs; every other record makes
\* it poll again; no history fetch follows the record that ended the loop.
C11_PollEndsAtFirstCompleted ==
  [][/\ FetchAnswered =>
          /\ CompletedWithOutputs(rec') => cpc' = "extracting"
          /\ ~CompletedWithOutputs(rec') => cpc' = "sleeping"
     /\ cpc \in {"extracting", "resolved", "rejected"} => fetched' = fetched]_vars

\* C11 (amended): among records without an error status, the poll loop ends
\* successfully exactly at the first one that is completed with non-empty
\* outputs and polls again on every other; it never ends successfully on any
\* other record, and once the loop has ended (or the run has rejected) no
\* history fetch follows.
C11_PollEndsAtFirstCompletedNonError ==
  [][/\ (FetchAnswered /\ ~IsErrorRecord(rec')) =>
          /\ CompletedWithOutputs(rec') => cpc' = "extracting"
          /\ ~CompletedWithOutputs(rec') => cpc' = "sleeping" /\ slept' = slept + 1
     /\ (cpc # "extracting" /\ cpc' = "extracting") =>
          /\ cpc = "fetching"
          /\ CompletedWithOutputs(rec') /\ ~IsErrorRecord(rec')
     /\ cpc \in {"extracting", "resolved", "rejected"} => fetched' = fetched]_vars

\* The loop has ended on its third fetch, after two records that kept it polling.
C11_Witness ==
  /\ cpc = "extracting"
  /\ fetched = 3
  /\ slept = 3
  /\ CompletedWithOutputs(rec)

\* C13: the delay slept before poll attempt k is
\* min(backoffBase * 2^k, backoffCap) of the client's poll configuration.
C13_DelayUsesBackoffBase ==
  cpc = "sleeping" =>
    waitMs = (IF pollCfg.backoffBase * (2 ^ attempt) < pollCfg.backoffCap
              THEN pollCfg.backoffBase * (2 ^ attempt)
              ELSE pollCfg.backoffCap)
\* C12 (as stated): exponentialBackoff returns base at attempt 0, is
\* non-decreasing in attempt and never exceeds cap, for every positive base
\* and cap; base 2000 and cap 15000 give 2000, 4000, 8000, 15000.
C12_BackoffStartsAtBase ==
  bk.attempt >= 0 =>
    /\ bk.attempt = 0 => bk.out = bk.base
    /\ bk.attempt > 0 => bk.prev <= bk.out
    /\ bk.out <= bk.cap

\* C12 (amended): exponentialBackoff returns min(base, cap) at attempt 0 (base
\* whenever base <= cap), is non-decreasing in attempt and never exceeds cap;
\* base 2000 and cap 15000 give 2000, 4000, 8000, 15000 for attempts 0..3.
C12_BackoffCappedMonotone ==
  bk.attempt >= 0 =>
    /\ bk.attempt = 0 => bk.out = (IF bk.base <= bk.cap THEN bk.base ELSE bk.cap)
    /\ bk.attempt > 0 => bk.prev <= bk.out
    /\ \A j \in 0 .. bk.attempt : ExponentialBackoff(j, bk.base, bk.cap) <= bk.out
    /\ bk.out <= bk.cap
    /\ bk.out > 0
    /\ (bk.base = 2000 /\ bk.cap = 15000 /\ bk.attempt <= 3) =>
         bk.out = <<2000, 4000, 8000, 15000>>[bk.attempt + 1]

\* The schedule of base 2000 and cap 15000 has reached its cap at attempt 3.
C12_Witness ==
  /\ bk.base = 2000 /\ bk.cap = 15000
  /\ bk.attempt = 3 /\ bk.out = 15000 /\ bk.prev = 8000
\* C14: for every outputs tree, no two artifacts returned by one run share the
\* same manifest.from (the same tree yielding the same froms follows from
\* extraction being a function of the tree).
C14_FromsDistinct ==
  ex.done =>
    \A i, j \in DOMAIN ex.artifacts :
      i # j => ex.artifacts[i].from # ex.artifacts[j].from
\* The run invocations of Pipeline.run call r, as positions of plog.
RunInvocations(r) == {k \in DOMAIN plog : plog[k].run = r /\ plog[k].op = "run"}

\* C15: a second Pipeline.run on the result of a first one invokes no
\* processor's run and leaves bus entries, kind, payload and manifest unchanged.
C15_PipelineIdempotent ==
  \A r \in PipeRuns :
    (r > 1 /\ ppc[r].phase = "done") =>
      /\ RunInvocations(r) = {}
      /\ settled[r] = settled[r - 1]

\* C16: once a processor's run has returned and its output is stored under
\* bus[name], no later Pipeline.run invokes that processor's run again or
\* writes bus[name] again, whatever the output is.
C16_BusEntryNeverRecomputed ==
  \A k1, k2 \in DOMAIN plog :
    (/\ plog[k1].op = "run" /\ plog[k2].op = "run"
     /\ plog[k1].run < plog[k2].run)
    => processors[plog[k1].idx].name # processors[plog[k2].idx].name

\* What a processor's run leaves of the artifact it was handed.
ExpectedAfterRun(seen, proc) ==
  [kind |-> IF proc.next = "toText" THEN "text" ELSE seen.kind,
   payload |-> IF proc.next = "toText" THEN "converted" ELSE seen.payload,
   manifest |-> IF proc.next = "toText" THEN "m1" ELSE seen.manifest,
   pipeline |-> [defined |-> TRUE,
                 state |-> [n \in ProcNames |->
                              IF n = proc.name THEN proc.output
                              ELSE seen.pipeline.state[n]]]]

\* C17: for each artifact the processors are invoked in list order, and the
\* artifact handed to a processor's shouldRun and run carries the `next` of
\* the processor that ran before it and the bus entries of every processor
\* that ran earlier in the call.
C17_ChainObservesEarlierProcessors ==
  /\ \A k \in DOMAIN plog :
       (k > 1 /\ plog[k - 1].run = plog[k].run) =>
         LET d == plog[k - 1]
             e == plog[k]
         IN /\ d.op = "shouldRun" =>
                 /\ e.seen = d.seen
                 /\ e.op = "run" => e.idx = d.idx
                 /\ e.op = "shouldRun" => e.idx > d.idx
            /\ d.op = "run" =>
                 /\ e.op = "shouldRun" /\ e.idx > d.idx
                 /\ e.seen = ExpectedAfterRun(d.seen, processors[d.idx])
  /\ \A k \in DOMAIN plog :
       plog[k].op = "run" =>
         /\ k > 1 /\ plog[k - 1] = [plog[k] EXCEPT !.op = "shouldRun"]
         /\ \A j \in 1 .. (k - 1) :
              (plog[j].op = "run" /\ plog[j].run = plog[k].run) =>
                plog[k].seen.pipeline.state[processors[plog[j].idx].name] # "absent"

\* A converter ran on a binary artifact and the processor after it was handed
\* the converted text artifact with the converter's bus entry.
C17_Witness ==
  \E k1, k2 \in DOMAIN plog :
    /\ k1 < k2
    /\ plog[k1].run = plog[k2].run
    /\ plog[k1].op = "run" /\ plog[k2].op = "run"
    /\ plog[k1].seen.kind = "binary"
    /\ processors[plog[k1].idx].next = "toText"
    /\ plog[k2].idx > plog[k1].idx
    /\ plog[k2].seen.kind = "text" /\ plog[k2].seen.payload = "converted"
    /\ plog[k2].seen.pipeline.state[processors[plog[k1].idx].name]
         = processors[plog[k1].idx].output
\* C18: with a non-empty output mapping run returns a map whose key `to`
\* holds, for each entry, the artifact whose manifest.from equals the entry's
\* `from`; the default value is used only when no artifact matches; with an
\* empty mapping the flat artifact array is returned.
C18_OutputMapByFrom ==
  om.done =>
    IF Len(om.outputs) = 0 THEN om.shape = "array"
    ELSE /\ om.shape = "map"
         /\ \A i \in DOMAIN om.outputs :
              LET entry == om.outputs[i]
                  held == GetKey(om.map, entry.to, Spread(NoArtifact, "undefined"))
                  matches == {k \in DOMAIN om.artifacts :
                                om.artifacts[k].from = entry.from}
              IN IF matches # {}
                 THEN /\ \E k \in matches : held.art = om.artifacts[k]
                      /\ held.payload = held.art.payload
                 ELSE held = Spread(NoArtifact, entry.defaultValue)
\* What lies at a path of an object tree, or below it.
At(tree, path) == {e \in tree : IsPrefix(path, e.path)}

C20_MissingRequiredNotPosted ==
  (prep.op # "none" /\ prep.node.defined /\ MissingRequired(prep.node, prep.inputs))
    => prep.posted = <<>>
RECURSIVE ExpectedTree(_, _, _, _)
\* The workflow with the mapped inputs written into it, entry by entry.
ExpectedTree(tree, node, inputs, i) ==
  IF i > Len(node) THEN tree
  ELSE LET given == inputs[node[i].from]
           value == IF given \in {"absent", "null"} THEN node[i].defaultValue ELSE given
           path == Split(node[i].to)
       IN ExpectedTree(IF value = "undefined" THEN tree
                       ELSE {e \in tree : ~IsPrefix(path, e.path)
                                          /\ ~IsPrefix(e.path, path)}
                              \cup {[path |-> path, val |-> value]},
                       node, inputs, i + 1)

PreparedTreeOf(tree, node, inputs) ==
  IF node.defined THEN ExpectedTree(tree, node.inputs, inputs, 1) ELSE tree

\* C21: queue performs prepare and exactly one POST /prompt and returns the
\* prompt handle; it performs no backoff sleep and no history fetch.
C21_QueueOnlySubmits ==
  prep.op = "queue" =>
    /\ Len(prep.posted) = 1
    /\ prep.posted[1].tree = PreparedTreeOf(prep.original, prep.node, prep.inputs)
    /\ slept = 0 /\ fetched = 0 /\ downloads = 0 /\ made = 0 /\ cpc = "idle"
    /\ prep.outcome = "resolved" => prep.handle \in PromptIds
    /\ prep.outcome # "resolved" => prep.handle = "none"

\* queue has returned the handle of a workflow it prepared with a mapping.
C21_Witness ==
  /\ prep.op = "queue"
  /\ prep.outcome = "resolved" /\ prep.handle = "p1"
  /\ prep.node.defined /\ Len(prep.node.inputs) > 0
  /\ prep.posted[1].tree # prep.original

\* C22: transport failures aside, getHistory(promptId) fails exactly when the
\* fetched record of promptId has status "error"; otherwise, also for a record
\* that is not completed and for no record at all, it returns the fetched map.
C22_GetHistoryFailsOnlyOnError ==
  ghCall.kind # "none" =>
    /\ ghCall.kind = "rejected" <=> IsErrorRecord(ghCall.resp)
    /\ ghCall.kind = "resolved" => ghCall.value = ghCall.resp

C22_Witness ==
  /\ ghCall.kind = "resolved"
  /\ ghCall.resp.present /\ ~ghCall.resp.completed
  /\ ghCall.value = ghCall.resp

\* C23: a transport failure on submit or on a history fetch makes run() reject
\* in the same step; the failed request is not issued again, a failed submit
\* is followed by no history fetch, and a failed fetch by no further sleep or
\* fetch.
C23_TransportFailureIsFatal ==
  /\ [](cerr.kind = "transport" => cpc = "rejected")
  /\ []((cerr.kind = "transport" /\ cerr.text = <<Raw("submit")>>)
          => fetched = 0 /\ slept = 0)
  /\ [][\A pid \in PromptIds : SubmitReturn(FALSE, pid) => cpc' = "rejected"]_vars
  /\ [][\A resp \in HistoryRecords : FetchReturn(FALSE, resp) => cpc' = "rejected"]_vars
  /\ [][cpc = "rejected"
          => cpc' = "rejected" /\ fetched' = fetched /\ slept' = slept]_vars
  /\ [][cpc' = "submitting" => cpc \in {"idle", "submitting"}]_vars

C23_Witness ==
  /\ cpc = "rejected"
  /\ cerr = [kind |-> "transport", text |-> <<Raw("history")>>]
  /\ fetched = 2 /\ slept = 2

\* C28: in every run exactly one backoff sleep precedes each history fetch,
\* the first included (submit, sleep, fetch, sleep, fetch, ...); the attempt
\* number the delay is computed from is 0 for the first sleep and one more for
\* each further iteration.
C28_OneSleepBeforeEachFetch ==
  /\ [](cpc \in {"idle", "submitting"} => slept = 0 /\ fetched = 0)
  /\ [](cpc = "sleeping"
          => /\ slept = fetched + 1
             /\ attempt = slept - 1
             /\ waitMs = ExponentialBackoff(slept - 1, pollCfg.interval, pollCfg.backoffCap))
  /\ [](cpc \in {"fetching", "extracting", "resolved"} => slept = fetched /\ attempt = fetched)
  /\ [][fetched' # fetched
          => cpc = "sleeping" /\ cpc' = "fetching" /\ fetched' = fetched + 1]_vars
  /\ [][slept' # slept
          => /\ cpc \in {"submitting", "fetching"} /\ cpc' = "sleeping"
             /\ slept' = slept + 1]_vars

C28_Witness ==
  /\ cpc = "sleeping"
  /\ slept = 3 /\ fetched = 2 /\ attempt = 2

\* C29: in every run a binary-resource download is issued only after a history
\* fetch of that run returned a record with completed = true and non-empty
\* outputs; no history fetch is issued once a download was issued, and no
\* artifact exists before that fetch.
C29_DownloadsOnlyAfterCompletion ==
  /\ [](cpc \in {"idle", "submitting", "sleeping", "fetching"}
          => downloads = 0 /\ inflight = 0 /\ made = 0)
  /\ []((downloads > 0 \/ made > 0) => fetched > 0 /\ CompletedWithOutputs(rec))
  /\ [][downloads' # downloads
          => /\ cpc = "fetching" /\ downloads = 0
             /\ CompletedWithOutputs(rec')
             /\ downloads' = Cardinality(LeavesOfKind(rec', "binary"))]_vars
  /\ [][downloads > 0 => fetched' = fetched /\ slept' = slept]_vars
  /\ [][made' # made => CompletedWithOutputs(rec')]_vars

C29_Witness ==
  /\ cpc = "extracting"
  /\ fetched = 2
  /\ downloads = 2 /\ inflight = 1 /\ made = 1

\* C24: in every pool state, metrics has one entry per instance i, with index
\* i, currentSessions = sessionCounts[i], maxConcurrency = maxConcurrencies[i]
\* and available = (currentSessions < maxConcurrency); reading it changes no
\* pool state.
C24_MetricsMirrorsCounters ==
  /\ [](mret.read
          => /\ DOMAIN mret.entries = Instances
             /\ \A i \in Instances :
                  /\ mret.entries[i].index = i
                  /\ mret.entries[i].currentSessions = sessionCounts[i]
                  /\ mret.entries[i].maxConcurrency = maxConcurrencies[i]
                  /\ mret.entries[i].available
                       = (mret.entries[i].currentSessions < mret.entries[i].maxConcurrency))
  /\ [][(mret'.read /\ ~mret.read)
          => UNCHANGED <<poolVars, sessVars, withVars, runVars>>]_vars
  /\ [](NoOpInFlight => ENABLED ReadMetrics)

C24_Witness ==
  /\ mret.read
  /\ \E i, j \in Instances : mret.entries[i].available /\ ~mret.entries[j].available
  /\ \E i \in Instances : mret.entries[i].currentSessions = 2

\* C25: when the Client.run call inside Session.run fails, Session.run rejects
\* with that failure and stays rejected with it, the pipeline is not run, and
\* the session stays open with its lease held: the instance counter is
\* unchanged, and only close() ends the session.
C25_ClientFailurePropagates ==
  /\ [][\A r \in Runs :
          ClientRunSettle(r, FALSE)
            => /\ rpc'[r] = "rejClient"
               /\ UNCHANGED <<sess, inst, releases, sessionCounts, phantomCount>>]_vars
  /\ [][\A r \in Runs : rpc[r] = "rejClient" => rpc'[r] = "rejClient"]_vars
  /\ [][\A r \in Runs : rpc'[r] = "pipeline" /\ rpc[r] # "pipeline"
          => ClientRunSettle(r, TRUE)]_vars
  /\ [][\A s \in RunSlots : (sess[s] = "open" /\ sess'[s] # "open") => Close(s)]_vars

C25_Witness ==
  \E r \in Runs :
    /\ rpc[r] = "rejClient"
    /\ sess[rsess[r]] = "open" /\ pipe[rsess[r]]
    /\ releases[rsess[r]] = 0
    /\ sessionCounts[inst[rsess[r]]] >= 1

\* C26: an acquire that chooses an instance increments the counter of that
\* instance by exactly one and leaves the counter of every other instance,
\* every maxConcurrency and every queue unchanged; the lease of the new session
\* holds the client and the queue of that same instance.
C26_AcquireTouchesOnlyChosen ==
  /\ [][\A s \in Slots :
          (sess[s] = "none" /\ sess'[s] = "open" /\ inst'[s] \in Instances)
            => /\ inst'[s] = AcquireBest
               /\ sessionCounts'[inst'[s]] = sessionCounts[inst'[s]] + 1
               /\ \A i \in Instances \ {inst'[s]} : sessionCounts'[i] = sessionCounts[i]
               /\ UNCHANGED <<maxConcurrencies, phantomCount, waiting, pending>>
               /\ \A t \in Slots \ {s} : inst'[t] = inst[t]]_vars
  /\ [][(\E i \in Instances : sessionCounts'[i] > sessionCounts[i])
          => \E s \in Slots : sess[s] = "none" /\ sess'[s] = "open" /\ inst'[s] \in Instances]_vars

C26_Witness ==
  /\ NumInstances = 2
  /\ sessionCounts[0] = 1 /\ sessionCounts[1] = 1
  /\ \E s \in Slots : sess[s] = "open" /\ inst[s] = 1

\* C27: for every sequence of createSession, withSession and close calls every
\* instance counter stays a non-negative integer; a release lowers the counter
\* of its instance by one, with a floor at zero, and never below zero.
C27_CountersNeverNegative ==
  /\ [](\A i \in Instances : sessionCounts[i] \in Nat)
  /\ [][\A i \in Instances :
          sessionCounts'[i] < sessionCounts[i]
            => /\ sessionCounts'[i] = sessionCounts[i] - 1
               /\ sessionCounts'[i] >= 0
               /\ \E s \in Slots : inst[s] = i /\ releases'[s] = releases[s] + 1]_vars
  /\ [][\A s \in Slots :
          (releases'[s] # releases[s] /\ inst[s] \in Instances)
            => sessionCounts'[inst[s]]
                 = (IF sessionCounts[inst[s]] = 0 THEN 0 ELSE sessionCounts[inst[s]] - 1)]_vars

C27_Witness ==
  \E s \in Slots :
    /\ sess[s] = "closed" /\ releases[s] = 1
    /\ inst[s] \in Instances
    /\ sessionCounts[inst[s]] = 0

\* The kinds of the leaves (binary-resource descriptors and bare strings) found
\* at any depth in a value, in document order.
RECURSIVE LeafKinds(_)
RECURSIVE LeafKindsFrom(_, _)
LeafKindsFrom(kids, i) ==
  IF i > Len(kids) THEN <<>> ELSE LeafKinds(kids[i].v) \o LeafKindsFrom(kids, i + 1)

LeafKinds(node) ==
  IF node.t = "bin" THEN <<"binary">>
  ELSE IF node.t = "str" THEN <<"text">>
  ELSE LeafKindsFrom(node.kids, 1)

ArtifactKinds == [i \in DOMAIN ex.artifacts |-> ex.artifacts[i].kind]

RECURSIVE PlainNodeLeafKinds(_, _)
PlainNodeLeafKinds(outputs, i) ==
  IF i > Len(outputs) THEN <<>>
  ELSE (IF outputs[i].v.t \in {"obj", "bin"} THEN LeafKinds(outputs[i].v) ELSE <<>>)
       \o PlainNodeLeafKinds(outputs, i + 1)

BinaryLeaves == {i \in DOMAIN rec.leaves : rec.leaves[i] = "binary"}

OtherLeaves == {i \in DOMAIN rec.leaves : rec.leaves[i] # "binary"}

\* C31: each binary leaf triggers exactly one download and becomes a binary
\* artifact, every other leaf becomes a text artifact without a download; if a
\* download fails, run() rejects with that failure and returns no artifacts.
C31_OneDownloadPerBinaryLeaf ==
  /\ [](cpc \in {"extracting", "resolved"}
          => /\ downloads = Cardinality(BinaryLeaves)
             /\ made = Cardinality(OtherLeaves) + (downloads - inflight))
  /\ [](cpc = "resolved"
          => inflight = 0 /\ made = Len(rec.leaves) /\ cerr = NoError)
  /\ [][downloads # 0 => downloads' = downloads]_vars
  /\ [][(cpc = "extracting" /\ DownloadReturn(FALSE))
          => /\ cpc' = "rejected"
             /\ cerr' = [kind |-> "transport", text |-> <<Raw("view")>>]]_vars
  /\ [][cerr.text = <<Raw("view")>> => cpc' = "rejected" /\ cerr' = cerr]_vars

C31_Witness ==
  /\ cpc = "rejected"
  /\ cerr = [kind |-> "transport", text |-> <<Raw("view")>>]
  /\ rec.leaves = <<"binary", "text">>
  /\ downloads = 1 /\ inflight = 0 /\ made = 1

\* Positions in a tree: the indices of the elements and entries on the way down.
TreePaths == UNION { [1 .. n -> 1 .. 3] : n \in 0 .. 5 }

RECURSIVE NodeAt(_, _)
\* The node at a position of a tree; a position outside the tree holds nothing.
NodeAt(node, path) ==
  IF path = <<>> THEN node
  ELSE IF Head(path) \in DOMAIN node.kids
  THEN NodeAt(node.kids[Head(path)].v, Tail(path))
  ELSE Scalar("nothing")

KeysOf(node) == [i \in DOMAIN node.kids |-> node.kids[i].k]

HasKindAndPayload(node) ==
  /\ \E i \in DOMAIN node.kids : node.kids[i].k = <<"kind">>
  /\ \E i \in DOMAIN node.kids : node.kids[i].k = <<"payload">>

ProperPrefixes(path) == {SubSeq(path, 1, n) : n \in 0 .. (Len(path) - 1)}

\* The nodes with kind and payload that are reached through lists and mappings
\* only, none of which is itself such a node.
ArtifactPositions(tree) ==
  {p \in TreePaths :
     /\ HasKindAndPayload(NodeAt(tree, p))
     /\ \A q \in ProperPrefixes(p) : ~HasKindAndPayload(NodeAt(tree, q))}

\* The positions that lie in no artifact.
StructurePositions(tree) ==
  {p \in TreePaths :
     /\ NodeAt(tree, p).t # "nothing"
     /\ ~HasKindAndPayload(NodeAt(tree, p))
     /\ \A q \in ProperPrefixes(p) : ~HasKindAndPayload(NodeAt(tree, q))}

\* C32: Pipeline.run applies the processor chain, once, to every node with a
\* kind and a payload field at any depth of lists and mappings, does not walk
\* into an artifact, ignores scalar leaves, and returns the input structure
\* with the same keys and indices.
C32_WalkProcessesEveryArtifact ==
  tw.done =>
    /\ {tw.calls[i] : i \in DOMAIN tw.calls} = ArtifactPositions(tw.tree)
    /\ Len(tw.calls) = Cardinality(ArtifactPositions(tw.tree))
    /\ \A p \in StructurePositions(tw.tree) :
         /\ NodeAt(tw.out, p).t = NodeAt(tw.tree, p).t
         /\ KeysOf(NodeAt(tw.out, p)) = KeysOf(NodeAt(tw.tree, p))
    /\ \A p \in ArtifactPositions(tw.tree) :
         /\ NodeAt(tw.out, p).t = "obj"
         /\ \A i \in DOMAIN NodeAt(tw.tree, p).kids :
              NodeAt(tw.out, p).kids[i] = NodeAt(tw.tree, p).kids[i]
         /\ \E i \in DOMAIN NodeAt(tw.out, p).kids :
              NodeAt(tw.out, p).kids[i].k = <<"pipeline">>

C32_Witness ==
  /\ tw.done
  /\ tw.tree = Obj(<<Kid(<<"a">>, Arr(<<Arr(<<TextArtifact, Str>>)>>)),
                     Kid(<<"b">>, WrappingArtifact)>>)
  /\ tw.calls = << <<1, 1, 1>>, <<2>> >>

\* The shouldRun of a processor resolves true on this artifact: always for the
\* default implementation, on text artifacts only for the conditional one.
ResolvesTrue(proc, seen) == proc.when = "always" \/ seen.kind = "text"

\* C33: when shouldRun(artifact) resolves false for a processor, its run is
\* not called, no bus entry is written under its name, and kind, payload and
\* manifest are left as they were; the default shouldRun resolves true.
C33_SkippedProcessorLeavesNoTrace ==
  /\ [](\A k \in DOMAIN plog :
          plog[k].op = "run" => ResolvesTrue(processors[plog[k].idx], plog[k].seen))
  /\ [](\A r \in PipeRuns :
          (ppc[r].phase = "shouldRun" /\ processors[ppc[r].idx].when = "always")
            => ppc[r].res)
  /\ [][\A r \in PipeRuns :
          (/\ ppc[r].phase = "shouldRun"
           /\ ~ResolvesTrue(processors[ppc[r].idx], artifact)
           /\ ShouldRunSettle(r))
            => /\ artifact' = artifact
               /\ \A k \in DOMAIN plog' \ DOMAIN plog :
                    plog'[k].idx > ppc[r].idx /\ plog'[k].op = "shouldRun"]_vars

C33_Witness ==
  \E r \in PipeRuns, k \in DOMAIN plog :
    /\ plog[k].run = r /\ plog[k].op = "shouldRun"
    /\ processors[plog[k].idx].when = "text" /\ plog[k].seen.kind = "binary"
    /\ ppc[r].phase = "done"
    /\ settled[r].kind = "binary"
    /\ settled[r].pipeline.state[processors[plog[k].idx].name] = "absent"

\* C34: within one Pipeline.run at most one processor invocation is in flight
\* on the artifact: an invocation starts only when the run's previous one has
\* settled, a processor's run only on its own shouldRun, and the next processor
\* only after the bus entry and the `next` of the one before are applied.
C34_OneInvocationAtATime ==
  [][\A r \in PipeRuns :
       (Len(plog') = Len(plog) + 1 /\ plog'[Len(plog')].run = r)
         => LET e == plog'[Len(plog')]
            IN /\ ppc'[r].phase = e.op /\ ppc'[r].idx = e.idx
               /\ artifact' = e.seen
               /\ e.op = "run" => ppc[r].phase = "shouldRun" /\ ppc[r].idx = e.idx
               /\ e.op = "shouldRun" => ppc[r].phase \in {"idle", "shouldRun", "run"}
               /\ (e.op = "shouldRun" /\ ppc[r].phase # "idle") => e.idx > ppc[r].idx
               /\ (e.op = "shouldRun" /\ ppc[r].phase = "run") =>
                    LET prev == processors[ppc[r].idx] IN
                      /\ e.seen.pipeline.state[prev.name] = prev.output
                      /\ prev.next = "toText" =>
                           e.seen.kind = "text" /\ e.seen.payload = "converted"]_vars

C34_Witness ==
  \E r \in PipeRuns, k \in DOMAIN plog :
    /\ ppc[r].phase = "shouldRun" /\ ppc[r].idx = 2
    /\ plog[k].run = r /\ plog[k].op = "run" /\ plog[k].idx = 1
    /\ artifact.pipeline.state[processors[1].name] = processors[1].output

\* The sessions that hold a lease on instance i.
\* Session s holds a slot of an instance of the pool.
Granted(s) == sess[s] = "open" /\ inst[s] \in Instances

\* C35: acquire selects and increments, and release decrements, in one step
\* each, so in every interleaving of createSession, withSession and close
\* calls a slot is granted only while the instance's counter is below its cap,
\* every grant adds exactly one to that counter and to no other, every release
\* takes exactly one away, and no other step changes a counter: no two
\* sessions are granted the same last free slot and no update is lost.
C35_NoSlotGrantedTwice ==
  [][/\ \A s \in Slots :
         /\ (~Granted(s) /\ Granted(s)')
              => /\ sessionCounts[inst'[s]] < maxConcurrencies[inst'[s]]
                 /\ sessionCounts' = [sessionCounts EXCEPT ![inst'[s]] = @ + 1]
         /\ (Granted(s) /\ ~Granted(s)')
              => sessionCounts' = [sessionCounts EXCEPT ![inst[s]] = @ - 1]
     /\ (\A s \in Slots : Granted(s) <=> Granted(s)')
          => sessionCounts' = sessionCounts]_vars

C35_Witness ==
  \E i \in Instances, s, t \in Slots :
    /\ s # t
    /\ sess[s] = "open" /\ sess[t] = "open"
    /\ inst[s] = i /\ inst[t] = i
    /\ wpc[s] = "none" /\ wpc[t] # "none"
    /\ sessionCounts[i] = 2 /\ maxConcurrencies[i] = 2

\* The sessions created on instance i and not closed yet.
CreatedNotClosed(i) == {s \in Slots : inst[s] = i /\ sess[s] \notin {"none", "null", "closed"}}

\* C36: in every reachable state and for every instance i, sessionCounts[i] is
\* the number of sessions created on instance i by createSession or
\* withSession that have not been closed yet.
C36_CounterCountsOpenSessions ==
  \A i \in Instances : sessionCounts[i] = Cardinality(CreatedNotClosed(i))

C36_Witness ==
  \E i \in Instances, s, t \in Slots :
    /\ inst[s] = i /\ inst[t] = i
    /\ sess[s] = "closed" /\ sess[t] = "open"
    /\ sessionCounts[i] = 1

Settled == cpc \in {"resolved", "rejected"}

\* C37 as stated: under fair scheduling, if submission and every history fetch
\* succeed and the remote from some point on reports completed = true for the
\* prompt, run() eventually stops polling and settles.
C37_CompletedEndsRun ==
  (<>[](remote.present /\ remote.completed)) => ((cpc = "submitting") ~> Settled)

\* C37: under fair scheduling, if submission and every history fetch succeed
\* and the remote from some point on reports a record that is completed with
\* non-empty outputs, or has status "error", run() eventually stops polling
\* and settles.
C37_CompletedWithOutputsEndsRun ==
  (<>[](remote.present /\ (remote.status_str = "error"
                             \/ (remote.completed /\ remote.outputs = "nonempty"))))
    => ((cpc = "submitting") ~> Settled)

C37_Witness ==
  /\ cpc = "resolved"
  /\ attempt = MaxPolls
  /\ remote.completed /\ remote.outputs = "nonempty"
  /\ rec = remote
  /\ made = 2

\* The run invocations of call r on processors before position i.
EarlierRuns(r, i) ==
  {k \in DOMAIN plog : plog[k].run = r /\ plog[k].op = "run" /\ plog[k].idx < i}

\* The artifact as call r found it.
AtCall(r) ==
  plog[CHOOSE k \in DOMAIN plog :
         plog[k].run = r /\ \A j \in DOMAIN plog : plog[j].run = r => k <= j].seen

\* C38: if a processor's run rejects, Pipeline.run rejects with that error and
\* runs no later processor on the artifact; the bus entries and `next`
\* transforms of the earlier processors stay on the artifact, and the failing
\* processor and the later ones leave no bus entry.
C38_RejectionStopsChain ==
  /\ [](\A r \in PipeRuns :
          ppc[r].phase = "rejected" =>
            LET i == ppc[r].idx IN
              /\ processors[i].output = "throws"
              /\ \A k \in DOMAIN plog : plog[k].run = r => plog[k].idx <= i
              /\ \E k \in DOMAIN plog :
                   /\ plog[k] = Invocation(r, i, "run", artifact)
                   /\ \A j \in DOMAIN plog : plog[j].run = r => j <= k
              /\ \A k \in EarlierRuns(r, i) :
                   /\ artifact.pipeline.state[processors[plog[k].idx].name] # "absent"
                   /\ processors[plog[k].idx].next = "toText" =>
                        artifact.kind = "text" /\ artifact.payload = "converted"
              /\ \A n \in ProcNames :
                   (\A k \in EarlierRuns(r, i) : processors[plog[k].idx].name # n)
                     => artifact.pipeline.state[n] = AtCall(r).pipeline.state[n])
  /\ [][\A r \in PipeRuns :
          (/\ ppc[r].phase = "run" /\ processors[ppc[r].idx].output = "throws"
           /\ ppc'[r] # ppc[r])
            => /\ ppc'[r].phase = "rejected" /\ ppc'[r].idx = ppc[r].idx
               /\ UNCHANGED <<artifact, plog>>]_vars
  /\ [][\A r \in PipeRuns : ppc[r].phase = "rejected" => ppc'[r] = ppc[r]]_vars

C38_Witness ==
  \E r \in PipeRuns :
    /\ ppc[r].phase = "rejected" /\ ppc[r].idx = 2
    /\ processors[1].name # processors[2].name
    /\ processors[1].next = "toText"
    /\ artifact.kind = "text" /\ artifact.payload = "converted"
    /\ artifact.pipeline.state[processors[1].name] = "obj"
    /\ artifact.pipeline.state[processors[2].name] = "absent"

\* C39: when two Pipeline.run calls process the same artifact concurrently,
\* each processor's run is still invoked at most once on the artifact and each
\* bus entry is written at most once.
C39_ConcurrentRunsInvokeOnce ==
  \A k1, k2 \in DOMAIN plog :
    (k1 < k2 /\ plog[k1].op = "run" /\ plog[k2].op = "run")
      => plog[k1].idx # plog[k2].idx

====
